---- MODULE Spec2Model ----
(***************************************************************************)
(* Verification model of the ovs-cni plugin (pkg/plugin/plugin.go): the    *)
(* three CNI verbs CmdAdd / CmdDel / CmdCheck as step machines over the    *)
(* switch database, the kernel link tables and the on-disk cache, plus the *)
(* pure helpers (splitVlanIds, getBridgeName, validateOvs, ...).           *)
(***************************************************************************)
EXTENDS Integers, Sequences, FiniteSets, TLC

(***************************************************************************)
(* Bounds of the model (not program constants).                            *)
(***************************************************************************)
MaxTrunkLen == 2

(***************************************************************************)
(* Program constants.                                                      *)
(***************************************************************************)
VlanMax == 4096

(***************************************************************************)
(* An optional uint (a Go pointer to uint) is <<>> for nil and <<v>> for a value.   *)
(***************************************************************************)
NilU == <<>>

SomeU(v) == <<v>>

IsSet(o) == o # <<>>

Val(o) == o[1]

(***************************************************************************)
(* Sample values of the trunk fields: zero, small ids, the last accepted   *)
(* id and the first rejected one.                                          *)
(***************************************************************************)
MinVals == {0, 10, 4097}

MaxVals == {0, 12, 4097}

IdVals == {0, 12, 4096, 4097}

OptOf(S) == {NilU} \cup {SomeU(v) : v \in S}

TrunkItems == [minID : OptOf(MinVals), maxID : OptOf(MaxVals), id : OptOf(IdVals)]

SeqsUpTo(S, n) == UNION {[1..k -> S] : k \in 0..n}

TrunkLists == SeqsUpTo(TrunkItems, MaxTrunkLen)

(***************************************************************************)
(* sort.Slice(vlanIds, <): the ascending enumeration of a finite set of    *)
(* naturals.                                                               *)
(***************************************************************************)
MinOf(S) == CHOOSE x \in S : \A y \in S : x <= y

RECURSIVE SortAsc(_)
SortAsc(S) == IF S = {} THEN <<>>
              ELSE LET m == MinOf(S) IN <<m>> \o SortAsc(S \ {m})

(***************************************************************************)
(* splitVlanIds, one loop iteration: the item's effect on the vlans map,   *)
(* or the error it returns.  minID/maxID default to 0 when the pointer is  *)
(* nil; the range is expanded only when both are positive; the id check    *)
(* tests minID, as the source does.                                        *)
(***************************************************************************)
SplitItem(item, vlans) ==
    LET minID == IF IsSet(item.minID) THEN Val(item.minID) ELSE 0
        maxID == IF IsSet(item.maxID) THEN Val(item.maxID) ELSE 0
        ranged == IF minID > 0 /\ maxID > 0 THEN vlans \cup (minID..maxID) ELSE vlans
    IN  IF IsSet(item.minID) /\ minID > VlanMax
          THEN [err |-> "incorrect trunk minID parameter", vlans |-> {}]
        ELSE IF IsSet(item.maxID) /\ maxID > VlanMax
          THEN [err |-> "incorrect trunk maxID parameter", vlans |-> {}]
        ELSE IF IsSet(item.maxID) /\ maxID < minID
          THEN [err |-> "minID is greater than maxID in trunk parameter", vlans |-> {}]
        ELSE IF IsSet(item.id) /\ minID > VlanMax
          THEN [err |-> "incorrect trunk id parameter", vlans |-> {}]
        ELSE IF IsSet(item.id)
          THEN [err |-> "", vlans |-> ranged \cup {Val(item.id)}]
        ELSE [err |-> "", vlans |-> ranged]

RECURSIVE SplitLoop(_, _, _)
SplitLoop(trunks, k, vlans) ==
    IF k > Len(trunks) THEN [err |-> "", vlans |-> vlans]
    ELSE LET r == SplitItem(trunks[k], vlans)
         IN  IF r.err # "" THEN r ELSE SplitLoop(trunks, k + 1, r.vlans)

\* splitVlanIds without the test of an empty map (246-248).
splitVlanIds_NoEmptyTest(trunks) ==
    LET r == SplitLoop(trunks, 1, {})
    IN  IF r.err # "" THEN [err |-> r.err, ids |-> <<>>]
        ELSE [err |-> "", ids |-> SortAsc(r.vlans)]

splitVlanIds(trunks) ==
    LET r == SplitLoop(trunks, 1, {})
    IN  IF r.err # "" THEN [err |-> r.err, ids |-> <<>>]
        ELSE IF r.vlans = {} THEN [err |-> "trunk parameter is misconfigured", ids |-> <<>>]
        ELSE [err |-> "", ids |-> SortAsc(r.vlans)]

(***************************************************************************)
(* More bounds of the model.                                               *)
(***************************************************************************)
MaxAdds == 1

MaxDels == 2

MaxChecks == 1

MaxEnvEvents == 1

MaxFaults == 1

MaxRetries == 2

(***************************************************************************)
(* Names.  One container interface ("own": args.IfName in args.Netns, with *)
(* cache key GetCRef(args.ContainerID, args.IfName)) is attached, detached *)
(* and verified; "other" is a port of another container's attachment on    *)
(* the same bridge.                                                        *)
(***************************************************************************)
NetnsPath == "ns0"

VethNames == {"vethA", "vethB"}

RepName == "rep0"

OtherPort == "other0"

PortNames == VethNames \cup {RepName, OtherPort}

Uplinks == <<"up0", "up1">>

UplinkNames == {"up0", "up1"}

\* FindBridgeByInterface per uplink ("" : the lookup fails); the states the
\* switch database can be in.
UbrStates ==
    { [u \in UplinkNames |-> IF u = "up1" THEN "br1" ELSE ""],
      [u \in UplinkNames |-> IF u = "up1" THEN "br1" ELSE "br0"],
      [u \in UplinkNames |-> ""] }

\* The trunk sections a network configuration of the lifecycle model declares.
TrunkConfs ==
    { <<>>,
      <<[minID |-> SomeU(10), maxID |-> SomeU(12), id |-> SomeU(12)]>>,
      <<[minID |-> SomeU(4097), maxID |-> NilU, id |-> NilU]>> }

\* How the bridge is named: explicitly, by an OVN port, by the device's
\* uplink (with or without an explicit name), or not at all.
BridgeConfs ==
    { [brName |-> "br0", ovnPort |-> "", dev |-> ""],
      [brName |-> "", ovnPort |-> "ovn", dev |-> ""],
      [brName |-> "", ovnPort |-> "", dev |-> "vf0"],
      [brName |-> "br0", ovnPort |-> "", dev |-> "vf0"],
      [brName |-> "", ovnPort |-> "", dev |-> ""] }

\* types.NetConf as loaded from args.StdinData, with the ovnPort of args.Args.
NetConfs ==
    { [ brName |-> b.brName, ovnPort |-> b.ovnPort, dev |-> b.dev,
        ipam |-> i, sock |-> "sock0", vlan |-> v, trunk |-> t ] :
      b \in BridgeConfs, i \in {"", "host-local"}, v \in {NilU, SomeU(5)},
      t \in TrunkConfs }

VARIABLES
    cache,      \* <<>> or <<CachedNetConf>> stored under the own key
    otherCache, \* <<>> or <<record>> stored under another attachment's key
    ports,      \* switch database: port name -> <<>> or <<port row>>
    hostLinks,  \* veth links present in the host namespace
    contLink,   \* <<>> or <<link>>: the link named args.IfName in the netns
    nsExists,   \* the netns path exists
    netConf,    \* the network configuration the runtime holds for the attachment
    ubr,        \* uplink name -> bridge that owns it ("" if none)
    pc,         \* position of the running invocation ("idle" when none)
    verb,       \* "ADD" | "DEL" | "CHECK" | ""
    cfg,        \* the invocation's inputs (NetConf, netns, ...)
    loc,        \* the invocation's local variables (err, ret, ...)
    acts,       \* external calls the invocation made, in order
    faults,     \* an external collaborator failed during this invocation
    prev,       \* <<>> or <<summary>> of the invocation that just ended
    lastAdd,    \* <<>> or <<[conf, result]>> of the last successful attach
    nInv,       \* invocations started, per verb
    nEnv,       \* external events so far
    nFaults,    \* failures of external collaborators so far
    fpc,        \* pure-function harness: "idle" | "in" | "out"
    fin,        \* pure-function harness: the input
    fout        \* pure-function harness: the output

envVars == <<cache, otherCache, ports, hostLinks, contLink, nsExists, ubr, netConf>>

procVars == <<pc, verb, cfg, loc, acts, faults>>

ghostVars == <<prev, lastAdd, nInv, nEnv>>

fvars == <<fpc, fin, fout>>

vars == <<cache, otherCache, ports, hostLinks, contLink, nsExists, ubr, netConf, pc, verb, cfg, loc,
          acts, faults, prev, lastAdd, nInv, nEnv, nFaults, fpc, fin, fout>>

NoConf ==
    [ brName |-> "", ovnPort |-> "", dev |-> "", ipam |-> "", sock |-> "",
      vlan |-> NilU, trunk |-> <<>> ]

NoCfg == [conf |-> NoConf, netns |-> "", prevResult |-> <<>>, variant |-> ""]

\* Local variables of a handler; err is Go's variable err ("" is nil), ret
\* the value the handler returned ("" until it returns, "nil" for success).
NoLoc ==
    [ err |-> "", ret |-> "", brName |-> "", userspace |-> FALSE,
      portType |-> "", vlanTagNum |-> 0, trunks |-> <<>>, origIfName |-> "",
      mac |-> "", hostIf |-> "", created |-> FALSE, armedPort |-> FALSE,
      armedIpam |-> FALSE, retries |-> 0, i |-> 0, ips |-> <<>>,
      contMac |-> "", result |-> <<>>, cached |-> <<>>,
      portName |-> "", portFound |-> FALSE, deferClean |-> FALSE ]

IdleProc ==
    /\ pc = "idle"
    /\ verb = ""
    /\ cfg = NoCfg
    /\ loc = NoLoc
    /\ acts = <<>>
    /\ faults = FALSE

InitEnv ==
    /\ cache = <<>>
    /\ otherCache = <<>>
    /\ ports = [n \in PortNames |-> <<>>]
    /\ hostLinks = {}
    /\ contLink = <<>>
    /\ nsExists = TRUE
    /\ ubr = [u \in UplinkNames |-> IF u = "up1" THEN "br1" ELSE ""]

InitGhost ==
    /\ prev = <<>>
    /\ lastAdd = <<>>
    /\ nInv = [add |-> 0, del |-> 0, chk |-> 0]
    /\ nEnv = 0
    /\ nFaults = 0

FIdle ==
    /\ fpc = "idle"
    /\ fin = <<>>
    /\ fout = [err |-> "", ids |-> <<>>]

Init == InitEnv /\ netConf \in NetConfs /\ IdleProc /\ InitGhost /\ FIdle

(***************************************************************************)
(* The cache of NetConfs (pkg/config, pkg/utils), by its contract: one     *)
(* record per key, the key made of the container id and the interface      *)
(* name.  The model follows two keys: the one of the invocations it runs   *)
(* and the one of another container's attachment.                          *)
(***************************************************************************)
ContainerID == "c0"

IfName == "own"

OtherContainerID == "c1"

OtherIfName == "own"

GetCRef(containerID, ifName) == <<containerID, ifName>>

\* The record under the other attachment's key after a write (or a
\* removal, written = <<>>) under cRef.
CacheAfter(cRef, written, other) ==
    IF cRef = GetCRef(OtherContainerID, OtherIfName) THEN written ELSE other

(***************************************************************************)
(* The switch database client (pkg/ovsdb), by its contract.                *)
(***************************************************************************)
HasPort(n) == ports[n] # <<>>

Port(n) == ports[n][1]

\* CreatePort: the row a new port gets.  Access mode carries the tag, trunk
\* mode the trunk ids; the external ids name the container interface.
NewPortRow(portType, vlanTag, trunks) ==
    [ cif |-> "own", mode |-> portType,
      tag |-> IF portType = "access" THEN SomeU(vlanTag) ELSE NilU,
      trunks |-> IF portType = "trunk" THEN trunks ELSE <<>>,
      err |-> FALSE ]

\* GetOvsPortForContIface: the ports whose external ids name the own pair.
OwnPorts == {n \in PortNames : HasPort(n) /\ Port(n).cif = "own"}

\* FindInterfacesWithError
ErrorIfaces == {n \in PortNames : HasPort(n) /\ Port(n).err}

WithoutPorts(S) == [n \in PortNames |-> IF n \in S THEN <<>> ELSE ports[n]]

IsOvsHardwareOffloadEnabled(deviceID) == deviceID # ""

(***************************************************************************)
(* getBridgeName: explicit name, else "br-int" for an OVN port, else the   *)
(* bridge of the first uplink candidate whose lookup succeeds.  upl is     *)
(* GetBridgeUplinkNameByDeviceID's result, find is FindBridgeByInterface.  *)
(***************************************************************************)
RECURSIVE FirstBridge(_, _, _)
FirstBridge(names, k, find) ==
    IF k > Len(names) THEN [name |-> "", err |-> "failed to find bridge by uplink names"]
    ELSE IF find[names[k]] = "" THEN FirstBridge(names, k + 1, find)
    ELSE [name |-> find[names[k]], err |-> ""]

\* getBridgeName with the OVN port tested before the explicit name.
getBridgeName_OvnFirst(bridgeName, ovnPort, deviceID, upl, find) ==
    IF ovnPort # "" THEN [name |-> "br-int", err |-> ""]
    ELSE IF bridgeName # "" THEN [name |-> bridgeName, err |-> ""]
    ELSE IF deviceID # "" THEN
        IF upl.err # "" THEN [name |-> "", err |-> "failed to resolve uplink name"]
        ELSE FirstBridge(upl.names, 1, find)
    ELSE [name |-> "", err |-> "failed to get bridge name"]

getBridgeName(bridgeName, ovnPort, deviceID, upl, find) ==
    IF bridgeName # "" THEN [name |-> bridgeName, err |-> ""]
    ELSE IF ovnPort # "" THEN [name |-> "br-int", err |-> ""]
    ELSE IF deviceID # "" THEN
        IF upl.err # "" THEN [name |-> "", err |-> "failed to resolve uplink name"]
        ELSE FirstBridge(upl.names, 1, find)
    ELSE [name |-> "", err |-> "failed to get bridge name"]

\* The results GetBridgeUplinkNameByDeviceID can give.
UplinkResults == {[names |-> Uplinks, err |-> ""], [names |-> <<>>, err |-> "no uplink"]}

(***************************************************************************)
(* Control flow shared by the handlers.                                    *)
(***************************************************************************)
Running(v, at) == verb = v /\ pc = at

Step(to, newloc, calls, fault) ==
    /\ fault => nFaults < MaxFaults
    /\ nFaults' = IF fault THEN nFaults + 1 ELSE nFaults
    /\ pc' = to
    /\ loc' = newloc
    /\ acts' = acts \o calls
    /\ faults' = (faults \/ fault)
    /\ UNCHANGED <<verb, cfg>>

\* CmdAdd's return: the deferred functions run last-registered first.
AddReturnPc(l) ==
    IF l.armedIpam THEN "A_deferIpam"
    ELSE IF l.armedPort THEN "A_deferPort"
    ELSE "done"

\* "return e" in CmdAdd with the variable err holding v.
AddReturn(e, v, calls, fault) ==
    LET l == [loc EXCEPT !.ret = e, !.err = v]
    IN  Step(AddReturnPc(l), l, calls, fault)

(***************************************************************************)
(* cleanPorts: list the interfaces in error (may fail: the only error it   *)
(* returns) and delete each one's port; a failed deletion is only logged.  *)
(* kept is the set of ports whose deletion failed.                         *)
(***************************************************************************)
cleanPortsOk(kept) ==
    /\ kept \subseteq ErrorIfaces
    /\ ports' = WithoutPorts(ErrorIfaces \ kept)

SweepCalls(kept) ==
    <<"FindInterfacesWithError">> \o
    (IF ErrorIfaces # {} THEN <<"SweepDeletePort">> ELSE <<>>)

(***************************************************************************)
(* CmdAdd (plugin.go:258-479), one action per group of statements up to    *)
(* the next call that can fail.                                            *)
(***************************************************************************)
AddStart ==
    /\ pc = "idle"
    /\ nInv.add < MaxAdds
    /\ cfg' = [conf |-> netConf, netns |-> NetnsPath, prevResult |-> <<>>, variant |-> ""]
    /\ verb' = "ADD"
    /\ pc' = "A_load"
    /\ nInv' = [nInv EXCEPT !.add = @ + 1]
    /\ UNCHANGED <<envVars, loc, acts, faults, prev, lastAdd, nEnv, nFaults, fvars>>

\* 261-278: getEnvArgs, config.LoadConf
AddLoad ==
    /\ Running("ADD", "A_load")
    /\ \/ AddReturn("failed to load netconf", "failed to load netconf", <<>>, TRUE)
       \/ Step("A_vlan", loc, <<>>, FALSE)
    /\ UNCHANGED <<envVars, ghostVars, fvars>>

\* 280-294: the port type and the VLAN parameters of the port to create.
TrunkMode(conf) == conf.vlan = NilU \/ Len(conf.trunk) > 0

PortTypeOf(conf) == IF TrunkMode(conf) THEN "trunk" ELSE "access"

VlanTagNumOf(conf) == IF TrunkMode(conf) THEN 0 ELSE Val(conf.vlan)

TrunksOf(conf) ==
    IF TrunkMode(conf) /\ Len(conf.trunk) > 0 THEN splitVlanIds(conf.trunk)
    ELSE [err |-> "", ids |-> <<>>]

AddVlan ==
    /\ Running("ADD", "A_vlan")
    /\ LET r == TrunksOf(cfg.conf)
       IN  IF r.err # ""
             THEN AddReturn(r.err, loc.err, <<>>, FALSE)
             ELSE Step("A_bridge",
                       [loc EXCEPT !.portType = PortTypeOf(cfg.conf),
                                   !.vlanTagNum = VlanTagNumOf(cfg.conf),
                                   !.trunks = r.ids],
                       <<>>, FALSE)
    /\ UNCHANGED <<envVars, ghostVars, fvars>>

\* The uplink discovery is consulted only on getBridgeName's third branch.
UplinkUsed(brName, ovnPort, dev) == brName = "" /\ ovnPort = "" /\ dev # ""

\* 295-312: NewOvsDriver, getBridgeName, netconf.BrName = bridgeName,
\* NewOvsBridgeDriver
AddBridge ==
    /\ Running("ADD", "A_bridge")
    /\ \/ AddReturn("failed to connect to ovsdb", "failed to connect to ovsdb", <<>>, TRUE)
       \/ \E upl \in UplinkResults :
            LET c == cfg.conf
                b == getBridgeName(c.brName, c.ovnPort, c.dev, upl, ubr)
                f == upl.err # "" /\ UplinkUsed(c.brName, c.ovnPort, c.dev)
            IN  IF b.err # ""
                  THEN AddReturn(b.err, b.err, <<"getBridgeName">>, f)
                  ELSE Step("A_usermode", [loc EXCEPT !.brName = b.name],
                            <<"getBridgeName">>, FALSE)
    /\ UNCHANGED <<envVars, ghostVars, fvars>>

\* 314-321: sriov.HasUserspaceDriver
AddUserspace ==
    /\ Running("ADD", "A_usermode")
    /\ IF IsOvsHardwareOffloadEnabled(cfg.conf.dev)
         THEN \/ AddReturn("HasUserspaceDriver failed", "HasUserspaceDriver failed", <<>>, TRUE)
              \/ \E u \in BOOLEAN :
                    Step("A_clean", [loc EXCEPT !.userspace = u], <<>>, FALSE)
         ELSE Step("A_clean", loc, <<>>, FALSE)
    /\ UNCHANGED <<envVars, ghostVars, fvars>>

\* 323-326: cleanPorts; its error is held by a variable of the if statement.
AddClean ==
    /\ Running("ADD", "A_clean")
    /\ \/ /\ AddReturn("clean ports: list failed", loc.err, <<"FindInterfacesWithError">>, TRUE)
          /\ UNCHANGED ports
       \/ \E kept \in SUBSET ErrorIfaces :
            /\ cleanPortsOk(kept)
            /\ Step("A_ns", loc, SweepCalls(kept), kept # {})
    /\ UNCHANGED <<cache, hostLinks, contLink, nsExists, ubr, netConf, otherCache, ghostVars, fvars>>

\* 328-332: ns.GetNS
AddGetNS ==
    /\ Running("ADD", "A_ns")
    /\ IF nsExists
         THEN Step("A_vfname", loc, <<>>, FALSE)
         ELSE AddReturn("failed to open netns", "failed to open netns", <<>>, FALSE)
    /\ UNCHANGED <<envVars, ghostVars, fvars>>

\* 334-341: sriov.GetVFLinkName
AddVFName ==
    /\ Running("ADD", "A_vfname")
    /\ IF IsOvsHardwareOffloadEnabled(cfg.conf.dev) /\ ~loc.userspace
         THEN \/ AddReturn("GetVFLinkName failed", "GetVFLinkName failed", <<>>, TRUE)
              \/ Step("A_cache", [loc EXCEPT !.origIfName = "vf0if"], <<>>, FALSE)
         ELSE Step("A_cache", loc, <<>>, FALSE)
    /\ UNCHANGED <<envVars, ghostVars, fvars>>

\* The record CmdAdd caches: the NetConf with the resolved bridge name.
CachedNetConf(conf, brName, origIfName, userspace) ==
    [ brName |-> brName, sock |-> conf.sock, ipam |-> conf.ipam, dev |-> conf.dev,
      origIfName |-> origIfName, userspace |-> userspace ]

\* AddSaveCache with the write left out.
AddSaveCache_NoWrite ==
    /\ Running("ADD", "A_cache")
    /\ \/ /\ AddReturn("error saving NetConf", "error saving NetConf", <<"SaveCache">>, TRUE)
          /\ UNCHANGED cache
       \/ /\ UNCHANGED cache
          /\ Step("A_setup", loc, <<>>, FALSE)
    /\ otherCache' = CacheAfter(GetCRef(ContainerID, IfName), cache', otherCache)
    /\ UNCHANGED <<ports, hostLinks, contLink, nsExists, ubr, netConf, ghostVars, fvars>>

\* 343-347: utils.SaveCache
AddSaveCache ==
    /\ Running("ADD", "A_cache")
    /\ \/ /\ AddReturn("error saving NetConf", "error saving NetConf", <<"SaveCache">>, TRUE)
          /\ UNCHANGED cache
       \/ /\ cache' = <<CachedNetConf(cfg.conf, loc.brName, loc.origIfName, loc.userspace)>>
          /\ Step("A_setup", loc, <<"SaveCache">>, FALSE)
    /\ otherCache' = CacheAfter(GetCRef(ContainerID, IfName), cache', otherCache)
    /\ UNCHANGED <<ports, hostLinks, contLink, nsExists, ubr, netConf, ghostVars, fvars>>

\* ip.SetupVeth picks a random host-side name no link of the host uses; the
\* model takes the first free one.
FreeVeths == {n \in VethNames : n \notin hostLinks /\ ~HasPort(n)}

FreshVeth == IF "vethA" \in FreeVeths THEN "vethA" ELSE "vethB"

\* 349-360: sriov.SetupSriovInterface or setupVeth.  Both fail when the
\* container already has a link named args.IfName.  setupVeth can also fail
\* in setInterfaceUp, after the pair exists.
AddSetup ==
    /\ Running("ADD", "A_setup")
    /\ IF contLink # <<>> \/ (~IsOvsHardwareOffloadEnabled(cfg.conf.dev) /\ FreeVeths = {})
         THEN /\ AddReturn("interface already exists", "interface already exists", <<"SetupIface">>, FALSE)
              /\ UNCHANGED <<hostLinks, contLink>>
         ELSE \E mac \in {"", "req"} :
              LET m == IF mac # "" THEN mac ELSE "rand"
              IN
              \/ /\ AddReturn("interface setup failed", "interface setup failed", <<"SetupIface">>, TRUE)
                 /\ UNCHANGED <<hostLinks, contLink>>
              \/ /\ IsOvsHardwareOffloadEnabled(cfg.conf.dev)
                 /\ contLink' = IF loc.userspace THEN contLink
                                ELSE <<[kind |-> "vf", peer |-> RepName, mac |-> m, addrs |-> 0]>>
                 /\ UNCHANGED hostLinks
                 /\ Step("A_attach",
                         [loc EXCEPT !.mac = mac, !.hostIf = RepName, !.contMac = m],
                         <<"SetupIface">>, FALSE)
              \/ /\ ~IsOvsHardwareOffloadEnabled(cfg.conf.dev)
                 /\ contLink' = <<[kind |-> "veth", peer |-> FreshVeth, mac |-> m, addrs |-> 0]>>
                 /\ hostLinks' = hostLinks \cup {FreshVeth}
                 /\ \/ Step("A_attach",
                            [loc EXCEPT !.mac = mac, !.hostIf = FreshVeth, !.contMac = m],
                            <<"SetupIface">>, FALSE)
                    \/ AddReturn("failed to set interface up", "failed to set interface up",
                                 <<"SetupIface">>, TRUE)
    /\ UNCHANGED <<cache, ports, nsExists, ubr, netConf, otherCache, ghostVars, fvars>>

\* After attachIfaceToBridge: line 388 selects the IPAM branch.
AfterAttachPc(conf, userspace) ==
    IF conf.ipam # "" /\ ~userspace THEN "A_ipamAdd" ELSE "A_result"

\* 362-379: attachIfaceToBridge (CreatePort, LinkByName, LinkSetUp), then
\* the rollback is deferred.  CreatePort fails on a port name in use.
AddAttach ==
    /\ Running("ADD", "A_attach")
    /\ \/ /\ AddReturn("CreatePort failed", "CreatePort failed", <<"CreatePort">>, ~HasPort(loc.hostIf))
          /\ UNCHANGED ports
       \/ /\ ~HasPort(loc.hostIf)
          /\ ports' = [ports EXCEPT ![loc.hostIf] =
                          <<NewPortRow(loc.portType, loc.vlanTagNum, loc.trunks)>>]
          /\ \/ Step(AfterAttachPc(cfg.conf, loc.userspace),
                     [loc EXCEPT !.created = TRUE, !.armedPort = TRUE],
                     <<"CreatePort">>, FALSE)
             \/ LET l == [loc EXCEPT !.created = TRUE, !.ret = "failed to set host link up",
                                     !.err = "failed to set host link up"]
                IN  Step("done", l, <<"CreatePort">>, TRUE)
    /\ UNCHANGED <<cache, hostLinks, contLink, nsExists, ubr, netConf, otherCache, ghostVars, fvars>>

\* 388-400: ipam.ExecAdd; its del is deferred whatever ExecAdd returned.
AddIpam ==
    /\ Running("ADD", "A_ipamAdd")
    /\ \/ LET l == [loc EXCEPT !.armedIpam = TRUE, !.ret = "failed to set up IPAM plugin",
                               !.err = "ExecAdd failed"]
          IN  Step(AddReturnPc(l), l, <<"ipam.ExecAdd">>, TRUE)
       \/ Step("A_convert", [loc EXCEPT !.armedIpam = TRUE], <<"ipam.ExecAdd">>, FALSE)
    /\ UNCHANGED <<envVars, ghostVars, fvars>>

\* 402-407: current.NewResultFromResult
AddConvert ==
    /\ Running("ADD", "A_convert")
    /\ \/ AddReturn("could not convert IPAM result", "could not convert IPAM result", <<>>, TRUE)
       \/ Step("A_ips", loc, <<>>, FALSE)
    /\ UNCHANGED <<envVars, ghostVars, fvars>>

\* 409-419: the IPAM result must hold an address; the error returned
\* otherwise is not assigned to err.  netconf.LinkStateCheckRetries is read
\* here for the wait that follows.
AddIPs ==
    /\ Running("ADD", "A_ips")
    /\ \/ AddReturn("IPAM plugin returned missing IP config", loc.err, <<>>, TRUE)
       \/ \E n \in 0..MaxRetries :
            Step("A_wait", [loc EXCEPT !.retries = n, !.i = 1], <<>>, FALSE)
    /\ UNCHANGED <<envVars, ghostVars, fvars>>

(***************************************************************************)
(* waitLinkUp (481-498), one loop iteration: the poll's answer st is "up", *)
(* "down" or "error".                                                      *)
(***************************************************************************)
WaitOutcome(i, retryCount, st) ==
    IF st = "up" THEN "break"
    ELSE IF i = retryCount THEN "exhausted"
    ELSE "sleep"

\* 421-426; the loop's counter ends with it.  A poll that reported "up" is
\* logged as such.
AddWaitLinkUp ==
    /\ Running("ADD", "A_wait")
    /\ IF loc.i <= loc.retries
         THEN \E st \in {"up", "down", "error"} :
              LET o == WaitOutcome(loc.i, loc.retries, st)
                  out == [loc EXCEPT !.i = 0]
              IN  IF o = "break"
                    THEN Step("A_config", out,
                              <<"GetOFPortOpState", "GetOFPortOpState:up">>, FALSE)
                  ELSE IF o = "exhausted"
                    THEN Step(AddReturnPc(loc),
                              [out EXCEPT !.ret = "The OF port state is not up",
                                          !.err = "The OF port state is not up"],
                              <<"GetOFPortOpState">>, TRUE)
                  ELSE Step("A_wait", [loc EXCEPT !.i = @ + 1], <<"GetOFPortOpState">>, FALSE)
         ELSE Step("A_config", [loc EXCEPT !.i = 0], <<>>, FALSE)
    /\ UNCHANGED <<envVars, ghostVars, fvars>>

\* 429: the condition under which the MAC is derived from the first address.
DeriveMac(mac, deviceID) == mac = "" /\ ~IsOvsHardwareOffloadEnabled(deviceID)

\* IPAddrToHWAddr of the first address, by its family.
DerivedMacOf(ipv) == IF ipv = "v4" THEN "0a:58:ipv4" ELSE "0a:58:sha256"

\* The address families of newResult.IPs, in the order the IPAM plugin
\* returned them.
IPFamilyLists == {<<"v4">>, <<"v6">>, <<"v4", "v6">>, <<"v6", "v4">>}

\* 428-464: inside the netns: the MAC derived from newResult.IPs[0] (IPv4
\* or not), ipam.ConfigureIface, a gratuitous ARP for the IPv4 addresses.
AddConfigure ==
    /\ Running("ADD", "A_config")
    /\ \/ /\ AddReturn("failed to configure container interface",
                       "failed to configure container interface", <<>>, TRUE)
          /\ UNCHANGED contLink
       \/ \E ips \in IPFamilyLists :
          LET arp == IF \E k \in 1..Len(ips) : ips[k] = "v4" THEN <<"GratuitousArp">> ELSE <<>>
              m == DerivedMacOf(ips[1])
          IN
          /\ contLink # <<>>
          /\ IF DeriveMac(loc.mac, cfg.conf.dev)
               THEN /\ contLink' = <<[contLink[1] EXCEPT !.mac = m, !.addrs = 1]>>
                    /\ Step("A_result", [loc EXCEPT !.contMac = m, !.ips = ips],
                            <<"LinkSetHardwareAddr", "ipam.ConfigureIface">> \o arp, FALSE)
               ELSE /\ contLink' = <<[contLink[1] EXCEPT !.addrs = 1]>>
                    /\ Step("A_result", [loc EXCEPT !.ips = ips],
                            <<"ipam.ConfigureIface">> \o arp, FALSE)
    /\ UNCHANGED <<cache, ports, hostLinks, nsExists, ubr, netConf, otherCache, ghostVars, fvars>>

\* 381-383, 413-419, 465-475: the reported result.  interfaces is the list
\* <<host, container>>; with IPAM the addresses carry index 0 (418) until
\* the loop of 467-474 sets it, -1 stands for no address.
\* 467-474: the loop over result.Interfaces (position k, index k - 1) that
\* sets the addresses' interface index at every interface named ifName.
RECURSIVE IfIndexFixup(_, _, _, _)
IfIndexFixup(interfaces, ifName, k, idx) ==
    IF k > Len(interfaces) THEN idx
    ELSE IfIndexFixup(interfaces, ifName, k + 1,
                      IF interfaces[k].name = ifName THEN k - 1 ELSE idx)

\* ResultOf with the addresses' index left as line 418 set it.
ResultOf_NoFixup(l, conf, netns) ==
    LET withIpam == conf.ipam # "" /\ ~l.userspace
        host == [name |-> l.hostIf, mac |-> "hostmac", sandbox |-> ""]
        cont == [name |-> "own", mac |-> l.contMac, sandbox |-> netns]
    IN  [ host |-> host, cont |-> cont, interfaces |-> <<host, cont>>,
          nIPs |-> IF withIpam THEN 1 ELSE 0,
          ipIface |-> IF withIpam THEN 0 ELSE -1 ]

ResultOf(l, conf, netns) ==
    LET withIpam == conf.ipam # "" /\ ~l.userspace
        host == [name |-> l.hostIf, mac |-> "hostmac", sandbox |-> ""]
        cont == [name |-> "own", mac |-> l.contMac, sandbox |-> netns]
    IN  [ host |-> host, cont |-> cont, interfaces |-> <<host, cont>>,
          nIPs |-> IF withIpam THEN 1 ELSE 0,
          ipIface |-> IF withIpam THEN IfIndexFixup(<<host, cont>>, "own", 1, 0) ELSE -1 ]

\* 478: types.PrintResult; its error is returned without being assigned to err.
AddResult ==
    /\ Running("ADD", "A_result")
    /\ \/ AddReturn("could not print result", loc.err, <<>>, TRUE)
       \/ LET l == [loc EXCEPT !.result = <<ResultOf(loc, cfg.conf, cfg.netns)>>,
                               !.ret = "nil"]
          IN  Step(AddReturnPc(l), l, <<>>, FALSE)
    /\ UNCHANGED <<envVars, ghostVars, fvars>>

\* 391-397: the deferred IPAM del runs when err is not nil.
AddDeferIpam ==
    /\ Running("ADD", "A_deferIpam")
    /\ LET to == IF loc.armedPort THEN "A_deferPort" ELSE "done"
       IN  IF loc.err # ""
             THEN \/ Step(to, loc, <<"ipam.ExecDel">>, FALSE)
                  \/ Step(to, loc, <<"ipam.ExecDel", "ipam.ExecDel:failed">>, TRUE)
             ELSE Step(to, loc, <<>>, FALSE)
    /\ UNCHANGED <<envVars, ghostVars, fvars>>

\* 365-379: the deferred rollback runs when err is not nil: look the port up
\* by (args.IfName, args.Netns) and delete it; failures are logged.
AddDeferPort ==
    /\ Running("ADD", "A_deferPort")
    /\ IF loc.err # ""
         THEN \/ /\ Step("done", loc,
                         <<"GetOvsPortForContIface", "GetOvsPortForContIface:failed">>, TRUE)
                 /\ UNCHANGED ports
              \/ /\ OwnPorts = {}
                 /\ Step("done", loc, <<"GetOvsPortForContIface">>, FALSE)
                 /\ UNCHANGED ports
              \/ \E n \in OwnPorts :
                   LET l == [loc EXCEPT !.portName = n, !.portFound = TRUE]
                   IN  \/ /\ ports' = WithoutPorts({n})
                          /\ Step("done", l, <<"GetOvsPortForContIface", "DeletePort">>, FALSE)
                       \/ /\ UNCHANGED ports
                          /\ Step("done", l,
                                  <<"GetOvsPortForContIface", "DeletePort", "DeletePort:failed">>,
                                  TRUE)
         ELSE /\ Step("done", loc, <<>>, FALSE)
              /\ UNCHANGED ports
    /\ UNCHANGED <<cache, hostLinks, contLink, nsExists, ubr, netConf, otherCache, ghostVars, fvars>>

\* What the next invocation can know of the one that ended.
Summary(v, l, c, f) ==
    <<[ verb |-> v, ok |-> l.ret = "nil", netns |-> c.netns, faults |-> f,
        made |-> IF l.created THEN l.hostIf ELSE "" ]>>

\* The attach process is killed: nothing more runs, deferred functions included.
AddKilled ==
    /\ verb = "ADD"
    /\ pc \notin {"idle", "done"}
    /\ nFaults < MaxFaults
    /\ nFaults' = nFaults + 1
    /\ prev' = Summary("ADD", loc, cfg, TRUE)
    /\ pc' = "idle"
    /\ verb' = ""
    /\ cfg' = NoCfg
    /\ loc' = NoLoc
    /\ acts' = <<>>
    /\ faults' = FALSE
    /\ UNCHANGED <<envVars, lastAdd, nInv, nEnv, fvars>>

(***************************************************************************)
(* The invocation's process exits.                                         *)
(***************************************************************************)
Finish ==
    /\ pc = "done"
    /\ prev' = Summary(verb, loc, cfg, faults)
    /\ lastAdd' = IF verb = "ADD" /\ loc.ret = "nil" THEN loc.result ELSE lastAdd
    /\ pc' = "idle"
    /\ verb' = ""
    /\ cfg' = NoCfg
    /\ loc' = NoLoc
    /\ acts' = <<>>
    /\ faults' = FALSE
    /\ UNCHANGED <<envVars, nInv, nEnv, nFaults, fvars>>

(***************************************************************************)
(* External events between invocations.                                    *)
(***************************************************************************)
EnvEvent ==
    /\ pc = "idle"
    /\ nEnv < MaxEnvEvents
    /\ nEnv' = nEnv + 1
    /\ prev' = <<>>
    /\ UNCHANGED <<procVars, lastAdd, nInv, nFaults, netConf, otherCache, fvars>>

\* Deleting a veth end deletes its peer, and the switch reports the peer's
\* interface in error.
PeerGone ==
    IF contLink # <<>> /\ contLink[1].kind = "veth"
      THEN /\ hostLinks' = hostLinks \ {contLink[1].peer}
           /\ ports' = [n \in PortNames |->
                          IF n = contLink[1].peer /\ HasPort(n)
                            THEN <<[Port(n) EXCEPT !.err = TRUE]>> ELSE ports[n]]
      ELSE UNCHANGED <<hostLinks, ports>>

EnvNsGone ==
    /\ EnvEvent
    /\ nsExists
    /\ nsExists' = FALSE
    /\ contLink' = <<>>
    /\ PeerGone
    /\ UNCHANGED <<cache, ubr>>

EnvLinkGone ==
    /\ EnvEvent
    /\ contLink # <<>>
    /\ contLink' = <<>>
    /\ PeerGone
    /\ UNCHANGED <<cache, nsExists, ubr>>

EnvPortGone ==
    /\ EnvEvent
    /\ \E n \in OwnPorts : ports' = WithoutPorts({n})
    /\ UNCHANGED <<cache, hostLinks, contLink, nsExists, ubr>>

\* An operator rewrites one VLAN column of a port.
VlanEdits(row) ==
    {[row EXCEPT !.mode = m] : m \in {"access", "trunk"}}
    \cup {[row EXCEPT !.tag = t] : t \in {NilU, SomeU(5), SomeU(6)}}
    \cup {[row EXCEPT !.trunks = q] : q \in {<<>>, <<10, 11, 12>>, <<10, 12, 11>>}}

EnvTamperVlan ==
    /\ EnvEvent
    /\ \E n \in OwnPorts :
         \E row \in VlanEdits(Port(n)) \ {Port(n)} :
            ports' = [ports EXCEPT ![n] = <<row>>]
    /\ UNCHANGED <<cache, hostLinks, contLink, nsExists, ubr>>

EnvIfaceError ==
    /\ EnvEvent
    /\ \E n \in PortNames :
         /\ HasPort(n)
         /\ ~Port(n).err
         /\ ports' = [ports EXCEPT ![n] = <<[Port(n) EXCEPT !.err = TRUE]>>]
    /\ UNCHANGED <<cache, hostLinks, contLink, nsExists, ubr>>

\* Another container's attachment puts its port on the bridge.
EnvOtherPort ==
    /\ EnvEvent
    /\ ~HasPort(OtherPort)
    /\ \E e \in BOOLEAN :
         ports' = [ports EXCEPT ![OtherPort] =
                     <<[cif |-> "other", mode |-> "access", tag |-> SomeU(7),
                        trunks |-> <<>>, err |-> e]>>]
    /\ UNCHANGED <<cache, hostLinks, contLink, nsExists, ubr>>

\* The uplink changes bridge (seen only by a device-resolved bridge name).
EnvUplinkMove ==
    /\ EnvEvent
    /\ UplinkUsed(netConf.brName, netConf.ovnPort, netConf.dev)
    /\ \E u \in UbrStates : u # ubr /\ ubr' = u
    /\ UNCHANGED <<cache, ports, hostLinks, contLink, nsExists>>

Env ==
    \/ EnvNsGone
    \/ EnvLinkGone
    \/ EnvPortGone
    \/ EnvTamperVlan
    \/ EnvIfaceError
    \/ EnvOtherPort
    \/ EnvUplinkMove

(***************************************************************************)
(* CmdDel (plugin.go:528-662).                                             *)
(***************************************************************************)
DelStart ==
    /\ pc = "idle"
    /\ nInv.del < MaxDels
    /\ \E ns \in {"", NetnsPath} :
          cfg' = [conf |-> NoConf, netns |-> ns, prevResult |-> <<>>, variant |-> ""]
    /\ verb' = "DEL"
    /\ pc' = "D_load"
    /\ nInv' = [nInv EXCEPT !.del = @ + 1]
    /\ UNCHANGED <<envVars, loc, acts, faults, prev, lastAdd, nEnv, nFaults, fvars>>

\* CmdDel's return: the deferred cache cleanup, once registered, runs.
DelReturn(e, v, calls, fault) ==
    Step(IF loc.deferClean THEN "D_defer" ELSE "done",
         [loc EXCEPT !.ret = e, !.err = v], calls, fault)

\* DelLoadCache with the load's error returned instead of swallowed.
DelLoadCache_ReturnsErr ==
    /\ Running("DEL", "D_load")
    /\ \/ /\ cache = <<>>
          /\ Step("done", [loc EXCEPT !.ret = "cache not found", !.err = "cache not found"],
                  <<>>, FALSE)
       \/ /\ cache # <<>>
          /\ Step("done", [loc EXCEPT !.ret = "cache unreadable", !.err = "cache unreadable"],
                  <<>>, TRUE)
       \/ /\ cache # <<>>
          /\ Step("D_bridge", [loc EXCEPT !.cached = cache, !.deferClean = TRUE],
                  <<>>, FALSE)
    /\ UNCHANGED <<envVars, ghostVars, fvars>>

\* 531-550: config.LoadConfFromCache; any error returns nil at once.  The
\* cleanup of the cache is deferred after a successful load.
DelLoadCache ==
    /\ Running("DEL", "D_load")
    /\ \/ /\ cache = <<>>
          /\ Step("done", [loc EXCEPT !.ret = "nil", !.err = "cache not found"],
                  <<>>, FALSE)
       \/ /\ cache # <<>>
          /\ Step("done", [loc EXCEPT !.ret = "nil", !.err = "cache unreadable"],
                  <<>>, TRUE)
       \/ /\ cache # <<>>
          /\ Step("D_bridge", [loc EXCEPT !.cached = cache, !.deferClean = TRUE],
                  <<>>, FALSE)
    /\ UNCHANGED <<envVars, ghostVars, fvars>>

\* 552-573: getEnvArgs, NewOvsDriver, getBridgeName on the cached NetConf,
\* NewOvsBridgeDriver; each error is assigned to err and returned.
DelBridge ==
    /\ Running("DEL", "D_bridge")
    /\ \/ DelReturn("failed to connect to ovsdb", "failed to connect to ovsdb", <<>>, TRUE)
       \/ \E upl \in UplinkResults :
            LET c == loc.cached[1]
                b == getBridgeName(c.brName, netConf.ovnPort, c.dev, upl, ubr)
                f == upl.err # "" /\ UplinkUsed(c.brName, netConf.ovnPort, c.dev)
            IN  IF b.err # ""
                  THEN DelReturn(b.err, b.err, <<"getBridgeName">>, f)
                  ELSE Step("D_ipam", [loc EXCEPT !.brName = b.name],
                            <<"getBridgeName">>, FALSE)
    /\ UNCHANGED <<envVars, ghostVars, fvars>>

\* 582: the branch taken after the IPAM del.
AfterIpamDelPc(netns) == IF netns = "" THEN "D_nons" ELSE "D_port"

\* DelIpam that goes on with the teardown after a failed IPAM del.
DelIpam_GoesOn ==
    /\ Running("DEL", "D_ipam")
    /\ IF loc.cached[1].ipam # ""
         THEN \/ Step(AfterIpamDelPc(cfg.netns), [loc EXCEPT !.err = "ipam.ExecDel failed"],
                      <<"ipam.ExecDel", "ipam.ExecDel:failed">>, TRUE)
              \/ Step(AfterIpamDelPc(cfg.netns), loc, <<"ipam.ExecDel">>, FALSE)
         ELSE Step(AfterIpamDelPc(cfg.netns), loc, <<>>, FALSE)
    /\ UNCHANGED <<envVars, ghostVars, fvars>>

\* 575-580: ipam.ExecDel for a cached IPAM type
DelIpam ==
    /\ Running("DEL", "D_ipam")
    /\ IF loc.cached[1].ipam # ""
         THEN \/ DelReturn("ipam.ExecDel failed", "ipam.ExecDel failed",
                           <<"ipam.ExecDel", "ipam.ExecDel:failed">>, TRUE)
              \/ Step(AfterIpamDelPc(cfg.netns), loc, <<"ipam.ExecDel">>, FALSE)
         ELSE Step(AfterIpamDelPc(cfg.netns), loc, <<>>, FALSE)
    /\ UNCHANGED <<envVars, ghostVars, fvars>>

\* 585-602: empty CNI_NETNS, hardware offload: remove the representor's
\* port (its error is assigned to err and logged), then reset the VF.
DelNoNetnsOffload ==
    /\ Running("DEL", "D_nons")
    /\ IsOvsHardwareOffloadEnabled(loc.cached[1].dev)
    /\ \/ /\ DelReturn("GetNetRepresentor failed", "GetNetRepresentor failed",
                       <<"GetNetRepresentor">>, TRUE)
          /\ UNCHANGED ports
       \/ \E removed \in BOOLEAN :
            /\ removed => HasPort(RepName)
            /\ ports' = IF removed THEN WithoutPorts({RepName}) ELSE ports
            /\ LET e == IF removed THEN "" ELSE "DeletePort failed"
                   calls == <<"GetNetRepresentor", "DeletePort">>
                            \o (IF removed THEN <<>> ELSE <<"DeletePort:failed">>)
                   f == ~removed /\ HasPort(RepName)
               IN  IF loc.cached[1].userspace
                     THEN DelReturn("nil", e, calls, f)
                     ELSE \/ DelReturn("nil", "", calls \o <<"ResetVF">>, f)
                          \/ DelReturn("ResetVF failed", "ResetVF failed",
                                       calls \o <<"ResetVF", "ResetVF:failed">>, TRUE)
    /\ UNCHANGED <<cache, hostLinks, contLink, nsExists, ubr, netConf, otherCache, ghostVars, fvars>>

\* 603-609: empty CNI_NETNS, no offload: cleanPorts, whose error is held by
\* a variable of the if statement, then return nil.
DelNoNetnsSweep ==
    /\ Running("DEL", "D_nons")
    /\ ~IsOvsHardwareOffloadEnabled(loc.cached[1].dev)
    /\ \/ /\ DelReturn("clean ports: list failed", loc.err, <<"FindInterfacesWithError">>, TRUE)
          /\ UNCHANGED ports
       \/ \E kept \in SUBSET ErrorIfaces :
            /\ cleanPortsOk(kept)
            /\ DelReturn("nil", loc.err, SweepCalls(kept), kept # {})
    /\ UNCHANGED <<cache, hostLinks, contLink, nsExists, ubr, netConf, otherCache, ghostVars, fvars>>

\* DelPort that takes any port of the bridge for the own one.
DelPort_AnyPort ==
    /\ Running("DEL", "D_port")
    /\ \/ /\ DelReturn("Failed to obtain OVS port", "GetOvsPortForContIface failed",
                       <<"GetOvsPortForContIface", "GetOvsPortForContIface:failed">>, TRUE)
          /\ UNCHANGED ports
       \/ /\ \A n \in PortNames : ~HasPort(n)
          /\ Step("D_link", loc, <<"GetOvsPortForContIface">>, FALSE)
          /\ UNCHANGED ports
       \/ \E n \in {q \in PortNames : HasPort(q)} :
            LET l == [loc EXCEPT !.portName = n, !.portFound = TRUE]
            IN  \/ /\ ports' = WithoutPorts({n})
                   /\ Step("D_link", l, <<"GetOvsPortForContIface", "DeletePort">>, FALSE)
                \/ /\ UNCHANGED ports
                   /\ Step(IF loc.deferClean THEN "D_defer" ELSE "done",
                           [l EXCEPT !.ret = "DeletePort failed"],
                           <<"GetOvsPortForContIface", "DeletePort", "DeletePort:failed">>,
                           TRUE)
    /\ UNCHANGED <<cache, hostLinks, contLink, nsExists, ubr, netConf, otherCache, ghostVars, fvars>>

\* 612-626: look the port up by (args.IfName, args.Netns); the lookup's
\* error is assigned to err, the deletion's error only to a variable of the
\* if statement.
DelPort ==
    /\ Running("DEL", "D_port")
    /\ \/ /\ DelReturn("Failed to obtain OVS port", "GetOvsPortForContIface failed",
                       <<"GetOvsPortForContIface", "GetOvsPortForContIface:failed">>, TRUE)
          /\ UNCHANGED ports
       \/ /\ OwnPorts = {}
          /\ Step("D_link", loc, <<"GetOvsPortForContIface">>, FALSE)
          /\ UNCHANGED ports
       \/ \E n \in OwnPorts :
            LET l == [loc EXCEPT !.portName = n, !.portFound = TRUE]
            IN  \/ /\ ports' = WithoutPorts({n})
                   /\ Step("D_link", l, <<"GetOvsPortForContIface", "DeletePort">>, FALSE)
                \/ /\ UNCHANGED ports
                   /\ Step(IF loc.deferClean THEN "D_defer" ELSE "done",
                           [l EXCEPT !.ret = "DeletePort failed"],
                           <<"GetOvsPortForContIface", "DeletePort", "DeletePort:failed">>,
                           TRUE)
    /\ UNCHANGED <<cache, hostLinks, contLink, nsExists, ubr, netConf, otherCache, ghostVars, fvars>>

\* 628-638: hardware offload: sriov.ReleaseVF, assigned to err; on its
\* failure a best-effort sriov.ResetVF.
DelReleaseVF ==
    /\ Running("DEL", "D_link")
    /\ IsOvsHardwareOffloadEnabled(loc.cached[1].dev)
    /\ IF loc.cached[1].userspace
         THEN /\ Step("D_clean", loc, <<>>, FALSE)
              /\ UNCHANGED contLink
         ELSE \/ /\ contLink' = <<>>
                 /\ Step("D_clean", [loc EXCEPT !.err = ""], <<"ReleaseVF">>, FALSE)
              \/ /\ UNCHANGED contLink
                 /\ \E resetOk \in BOOLEAN :
                      Step("D_clean", [loc EXCEPT !.err = "ReleaseVF failed"],
                           <<"ReleaseVF", "ReleaseVF:failed", "ResetVF">>
                             \o (IF resetOk THEN <<>> ELSE <<"ResetVF:failed">>),
                           TRUE)
    /\ UNCHANGED <<cache, ports, hostLinks, nsExists, ubr, netConf, otherCache, ghostVars, fvars>>

\* ip.DelLinkByName(args.IfName) inside ns.WithNetNSPath(args.Netns).
DelLinkError ==
    IF ~nsExists THEN "NSPathNotExistErr"
    ELSE IF contLink = <<>> THEN "ErrLinkNotFound"
    ELSE ""

\* Tolerated that takes only the missing namespace for a success.
Tolerated_OnlyNsGone(e) == e = "NSPathNotExistErr"

\* 646: the errors CmdDel turns into success.
Tolerated(e) == e \in {"NSPathNotExistErr", "ErrLinkNotFound"}

\* What ip.DelLinkByName(args.IfName) can return in the state at hand: the
\* error the state imposes, else success or a failure of the call.
DelLinkResults ==
    IF DelLinkError # "" THEN {DelLinkError} ELSE {"", "DelLinkByName failed"}

\* 639-654: no offload: delete the container link; the error is assigned to
\* err.  A missing namespace or link returns nil at once, after a
\* best-effort deletion of the host link named after the port found, whose
\* failure (the link is not there, or the call fails) is logged.
DelLink ==
    /\ Running("DEL", "D_link")
    /\ ~IsOvsHardwareOffloadEnabled(loc.cached[1].dev)
    /\ \E e \in DelLinkResults :
         IF Tolerated(e)
           THEN /\ UNCHANGED <<contLink, ports>>
                /\ IF ~loc.portFound
                     THEN /\ UNCHANGED hostLinks
                          /\ DelReturn("nil", e, <<"DelLinkByName">>, FALSE)
                   ELSE IF loc.portName \notin hostLinks
                     THEN /\ UNCHANGED hostLinks
                          /\ DelReturn("nil", e,
                                       <<"DelLinkByName", "DelLinkByName:host",
                                         "DelLinkByName:host:failed">>, FALSE)
                   ELSE \/ /\ hostLinks' = hostLinks \ {loc.portName}
                           /\ DelReturn("nil", e,
                                        <<"DelLinkByName", "DelLinkByName:host">>, FALSE)
                        \/ /\ UNCHANGED hostLinks
                           /\ DelReturn("nil", e,
                                        <<"DelLinkByName", "DelLinkByName:host",
                                          "DelLinkByName:host:failed">>, TRUE)
         ELSE IF e = ""
           THEN /\ contLink' = <<>>
                /\ PeerGone
                /\ Step("D_clean", [loc EXCEPT !.err = ""], <<"DelLinkByName">>, FALSE)
         ELSE /\ UNCHANGED <<contLink, hostLinks, ports>>
              /\ Step("D_clean", [loc EXCEPT !.err = e],
                      <<"DelLinkByName", "DelLinkByName:failed">>,
                      e = "DelLinkByName failed")
    /\ UNCHANGED <<cache, nsExists, ubr, netConf, otherCache, ghostVars, fvars>>

\* 656-661: cleanPorts, whose error is held by a variable of the if
\* statement, then return err.
DelClean ==
    /\ Running("DEL", "D_clean")
    /\ \/ /\ DelReturn("clean ports: list failed", loc.err, <<"FindInterfacesWithError">>, TRUE)
          /\ UNCHANGED ports
       \/ \E kept \in SUBSET ErrorIfaces :
            /\ cleanPortsOk(kept)
            /\ DelReturn(IF loc.err = "" THEN "nil" ELSE loc.err, loc.err,
                         SweepCalls(kept), kept # {})
    /\ UNCHANGED <<cache, hostLinks, contLink, nsExists, ubr, netConf, otherCache, ghostVars, fvars>>

\* DelDeferClean with the test of err inverted.
DelDeferClean_Inverted ==
    /\ Running("DEL", "D_defer")
    /\ IF loc.err # ""
         THEN \/ /\ cache' = <<>>
                 /\ Step("done", loc, <<"CleanCache">>, FALSE)
              \/ /\ UNCHANGED cache
                 /\ Step("done", loc, <<"CleanCache", "CleanCache:failed">>, TRUE)
         ELSE /\ UNCHANGED cache
              /\ Step("done", loc, <<>>, FALSE)
    /\ otherCache' = CacheAfter(GetCRef(ContainerID, IfName), cache', otherCache)
    /\ UNCHANGED <<ports, hostLinks, contLink, nsExists, ubr, netConf, ghostVars, fvars>>

\* 544-550: the deferred function cleans the cache when err is nil; a
\* failure of utils.CleanCache is logged.
DelDeferClean ==
    /\ Running("DEL", "D_defer")
    /\ IF loc.err = ""
         THEN \/ /\ cache' = <<>>
                 /\ Step("done", loc, <<"CleanCache">>, FALSE)
              \/ /\ UNCHANGED cache
                 /\ Step("done", loc, <<"CleanCache", "CleanCache:failed">>, TRUE)
         ELSE /\ UNCHANGED cache
              /\ Step("done", loc, <<>>, FALSE)
    /\ otherCache' = CacheAfter(GetCRef(ContainerID, IfName), cache', otherCache)
    /\ UNCHANGED <<ports, hostLinks, contLink, nsExists, ubr, netConf, ghostVars, fvars>>

CmdDel ==
    \/ DelStart
    \/ DelLoadCache
    \/ DelBridge
    \/ DelIpam
    \/ DelNoNetnsOffload
    \/ DelNoNetnsSweep
    \/ DelPort
    \/ DelReleaseVF
    \/ DelLink
    \/ DelClean
    \/ DelDeferClean

(***************************************************************************)
(* CmdCheck (plugin.go:665-789) and its validators.                        *)
(***************************************************************************)
\* What the runtime hands to a verify: the attachment's configuration and
\* the attach's result, or one of them changed.
CheckVariants == {"none", "brName", "sock", "ipam", "dev", "noPrev", "netns"}

VariantConf(conf, v) ==
    IF v = "brName" THEN [conf EXCEPT !.brName = "brX"]
    ELSE IF v = "sock" THEN [conf EXCEPT !.sock = "sock1"]
    ELSE IF v = "ipam" THEN [conf EXCEPT !.ipam = IF @ = "" THEN "host-local" ELSE ""]
    ELSE IF v = "dev" THEN [conf EXCEPT !.dev = IF @ = "" THEN "vf0" ELSE ""]
    ELSE conf

\* The model verifies an attachment that no detach has touched yet.
CheckStart ==
    /\ pc = "idle"
    /\ nInv.chk < MaxChecks
    /\ nInv.del = 0
    /\ \E v \in CheckVariants :
          cfg' = [ conf |-> VariantConf(netConf, v),
                   netns |-> IF v = "netns" THEN "ns1" ELSE NetnsPath,
                   prevResult |-> IF v = "noPrev" THEN <<>> ELSE lastAdd,
                   variant |-> v ]
    /\ verb' = "CHECK"
    /\ pc' = "K_load"
    /\ nInv' = [nInv EXCEPT !.chk = @ + 1]
    /\ UNCHANGED <<envVars, loc, acts, faults, prev, lastAdd, nEnv, nFaults, fvars>>

\* "return e" in CmdCheck.
CheckReturn(e, calls, fault) == Step("done", [loc EXCEPT !.ret = e], calls, fault)

\* 668-685: config.LoadConf, getEnvArgs, ovsdb.NewOvsDriver
CheckLoad ==
    /\ Running("CHECK", "K_load")
    /\ \/ CheckReturn("failed to load netconf", <<>>, TRUE)
       \/ CheckReturn("failed to connect to ovsdb", <<>>, TRUE)
       \/ Step("K_bridge", loc, <<>>, FALSE)
    /\ UNCHANGED <<envVars, ghostVars, fvars>>

\* 686-692: the bridge name is resolved again and replaces netconf.BrName.
CheckBridge ==
    /\ Running("CHECK", "K_bridge")
    /\ \E upl \in UplinkResults :
         LET c == cfg.conf
             b == getBridgeName(c.brName, c.ovnPort, c.dev, upl, ubr)
             f == upl.err # "" /\ UplinkUsed(c.brName, c.ovnPort, c.dev)
         IN  IF b.err # ""
               THEN CheckReturn(b.err, <<"getBridgeName">>, f)
               ELSE Step("K_cache", [loc EXCEPT !.brName = b.name], <<"getBridgeName">>, FALSE)
    /\ UNCHANGED <<envVars, ghostVars, fvars>>

\* validateCache without the comparison of the device id.
validateCache_NoDeviceID(c, netconf) ==
    IF c.brName # netconf.brName THEN "BrName mismatch"
    ELSE IF c.sock # netconf.sock THEN "SocketFile mismatch"
    ELSE IF c.ipam # netconf.ipam THEN "IPAM mismatch"
    ELSE ""

\* validateCache (791-813): the cached NetConf against the loaded one.
validateCache(c, netconf) ==
    IF c.brName # netconf.brName THEN "BrName mismatch"
    ELSE IF c.sock # netconf.sock THEN "SocketFile mismatch"
    ELSE IF c.ipam # netconf.ipam THEN "IPAM mismatch"
    ELSE IF c.dev # netconf.dev THEN "DeviceID mismatch"
    ELSE ""

\* 694-708: config.LoadConfFromCache, validateCache; a userspace-mode
\* attachment is verified no further.
CheckCache ==
    /\ Running("CHECK", "K_cache")
    /\ \/ /\ cache = <<>>
          /\ CheckReturn("cache not found", <<>>, FALSE)
       \/ /\ cache # <<>>
          /\ CheckReturn("cache unreadable", <<>>, TRUE)
       \/ /\ cache # <<>>
          /\ LET e == validateCache(cache[1], [cfg.conf EXCEPT !.brName = loc.brName])
             IN  IF e # "" THEN CheckReturn(e, <<>>, FALSE)
                 ELSE IF cache[1].userspace THEN CheckReturn("nil", <<>>, FALSE)
                 ELSE Step("K_ipam", [loc EXCEPT !.cached = cache], <<>>, FALSE)
    /\ UNCHANGED <<envVars, ghostVars, fvars>>

\* 710-718: ipam.ExecCheck for a configured IPAM type
CheckIpam ==
    /\ Running("CHECK", "K_ipam")
    /\ IF cfg.conf.ipam # ""
         THEN \/ CheckReturn("failed to check with IPAM plugin",
                             <<"ipam.ExecCheck", "ipam.ExecCheck:failed">>, TRUE)
              \/ Step("K_prev", loc, <<"ipam.ExecCheck">>, FALSE)
         ELSE Step("K_prev", loc, <<>>, FALSE)
    /\ UNCHANGED <<envVars, ghostVars, fvars>>

\* 720-730: RawPrevResult, version.ParsePrevResult, current.NewResultFromResult
CheckPrev ==
    /\ Running("CHECK", "K_prev")
    /\ IF cfg.prevResult = <<>>
         THEN CheckReturn("Required prevResult missing", <<>>, FALSE)
         ELSE \/ CheckReturn("could not parse prevResult", <<>>, TRUE)
              \/ Step("K_find", [loc EXCEPT !.result = cfg.prevResult], <<>>, FALSE)
    /\ UNCHANGED <<envVars, ghostVars, fvars>>

\* netlink.LinkByName in the host namespace: a veth end, or the representor
\* of the VF; <<>> when there is no such link.
HostLink(name) ==
    IF name \in hostLinks THEN <<[kind |-> "veth", mac |-> "hostmac"]>>
    ELSE IF name = RepName THEN <<[kind |-> "rep", mac |-> "hostmac"]>>
    ELSE <<>>

\* validateInterface (815-847); link is what LinkByName(intf.Name) finds in
\* the current namespace.
validateInterface(intf, isHost, hwOffload, link) ==
    IF intf.name = "" THEN "interface name missing in prevResult"
    ELSE IF link = <<>> THEN "Interface name in prevResult not found"
    ELSE IF ~isHost /\ intf.sandbox = "" THEN "interface should not be in host namespace"
    ELSE IF ~hwOffload /\ link[1].kind # "veth" THEN "interface not of type veth/p2p"
    ELSE IF intf.mac # "" /\ intf.mac # link[1].mac THEN "Mac doesn't match"
    ELSE ""

NoIntf == [name |-> "", mac |-> "", sandbox |-> ""]

\* 732-746: the container interface is the reported one named args.IfName
\* whose sandbox is args.Netns.
ContIntfOf(result, netns) ==
    IF result.cont.name = "own" /\ result.cont.sandbox = netns THEN result.cont ELSE NoIntf

\* 732-752: every other reported interface is validated as a host
\* interface; then the sandbox of the container interface must be args.Netns.
CheckFind ==
    /\ Running("CHECK", "K_find")
    /\ LET r == loc.result[1]
           hw == IsOvsHardwareOffloadEnabled(cfg.conf.dev)
           e == validateInterface(r.host, TRUE, hw, HostLink(r.host.name))
       IN  IF e # "" THEN CheckReturn(e, <<"LinkByName:host">>, FALSE)
           ELSE IF cfg.netns # ContIntfOf(r, cfg.netns).sandbox
             THEN CheckReturn("Sandbox in prevResult doesn't match configured netns",
                              <<"LinkByName:host">>, FALSE)
           ELSE Step("K_ns", [loc EXCEPT !.hostIf = r.host.name], <<"LinkByName:host">>, FALSE)
    /\ UNCHANGED <<envVars, ghostVars, fvars>>

\* 754-781: ns.GetNS, then inside the netns validateInterface of the
\* container interface, ip.ValidateExpectedInterfaceIPs, ip.ValidateExpectedRoute
CheckNs ==
    /\ Running("CHECK", "K_ns")
    /\ LET r == loc.result[1]
           hw == IsOvsHardwareOffloadEnabled(cfg.conf.dev)
           e == validateInterface(ContIntfOf(r, cfg.netns), FALSE, hw, contLink)
       IN  IF ~nsExists THEN CheckReturn("failed to open netns", <<"GetNS">>, FALSE)
           ELSE IF e # "" THEN CheckReturn(e, <<"GetNS", "LinkByName">>, FALSE)
           ELSE IF contLink[1].addrs < r.nIPs
             THEN CheckReturn("expected addresses not found",
                              <<"GetNS", "LinkByName", "ValidateExpectedInterfaceIPs">>, FALSE)
           ELSE \/ CheckReturn("expected route not found",
                               <<"GetNS", "LinkByName", "ValidateExpectedInterfaceIPs",
                                 "ValidateExpectedRoute">>, TRUE)
                \/ Step("K_ovs", loc,
                        <<"GetNS", "LinkByName", "ValidateExpectedInterfaceIPs",
                          "ValidateExpectedRoute">>, FALSE)
    /\ UNCHANGED <<envVars, ghostVars, fvars>>

\* validateOvs, 876-916: the declared VLAN parameters against the port's
\* vlan_mode, tag and trunks.
validateOvs(netconf, vlanMode, tag, trunk) ==
    LET t == IF Len(netconf.trunk) > 0 THEN splitVlanIds(netconf.trunk)
             ELSE [err |-> "", ids |-> <<>>]
    IN  IF netconf.vlan = NilU /\ tag # NilU THEN "vlan tag mismatch"
        ELSE IF netconf.vlan # NilU /\ tag = NilU THEN "vlan tag mismatch"
        ELSE IF netconf.vlan # NilU /\ Val(tag) # Val(netconf.vlan) THEN "vlan tag mismatch"
        ELSE IF netconf.vlan # NilU /\ vlanMode # "access" THEN "vlan mode mismatch"
        ELSE IF t.err # "" THEN t.err
        ELSE IF Len(trunk) # Len(t.ids) THEN "trunk mismatch"
        ELSE IF Len(t.ids) > 0 /\ (\E k \in 1..Len(trunk) : trunk[k] # t.ids[k])
          THEN "trunk mismatch"
        ELSE IF Len(t.ids) > 0 /\ vlanMode # "trunk" THEN "vlan mode mismatch"
        ELSE ""

\* 783-788 with validateOvs 849-874: the bridge, the interfaces in error,
\* GetOFPortVlanState of the host interface, then the VLAN comparison.
\* CheckOvs that removes the ports of the interfaces in error it lists.
CheckOvs_Sweeps ==
    /\ Running("CHECK", "K_ovs")
    /\ \/ /\ CheckReturn("bridge is not found in OVS", <<"IsBridgePresent">>, TRUE)
          /\ UNCHANGED ports
       \/ /\ CheckReturn("FindInterfacesWithError failed",
                         <<"IsBridgePresent", "FindInterfacesWithError">>, TRUE)
          /\ UNCHANGED ports
       \/ LET calls == <<"IsBridgePresent", "FindInterfacesWithError">>
          IN  /\ ports' = WithoutPorts(ErrorIfaces)
              /\ IF ErrorIfaces # {}
                    THEN CheckReturn("There are some interfaces in error state", calls, FALSE)
                  ELSE IF ~HasPort(loc.hostIf)
                    THEN CheckReturn("Failed to retrieve port state",
                                     calls \o <<"GetOFPortVlanState">>, FALSE)
                  ELSE LET row == Port(loc.hostIf)
                           e == validateOvs(cfg.conf, row.mode, row.tag, row.trunks)
                       IN  CheckReturn(IF e = "" THEN "nil" ELSE e,
                                       calls \o <<"GetOFPortVlanState">>, FALSE)
    /\ UNCHANGED <<cache, hostLinks, contLink, nsExists, ubr, netConf, otherCache, ghostVars, fvars>>

CheckOvs ==
    /\ Running("CHECK", "K_ovs")
    /\ \/ CheckReturn("bridge is not found in OVS", <<"IsBridgePresent">>, TRUE)
       \/ CheckReturn("FindInterfacesWithError failed",
                      <<"IsBridgePresent", "FindInterfacesWithError">>, TRUE)
       \/ LET calls == <<"IsBridgePresent", "FindInterfacesWithError">>
          IN  IF ErrorIfaces # {}
                THEN CheckReturn("There are some interfaces in error state", calls, FALSE)
              ELSE IF ~HasPort(loc.hostIf)
                THEN CheckReturn("Failed to retrieve port state",
                                 calls \o <<"GetOFPortVlanState">>, FALSE)
              ELSE LET row == Port(loc.hostIf)
                       e == validateOvs(cfg.conf, row.mode, row.tag, row.trunks)
                   IN  CheckReturn(IF e = "" THEN "nil" ELSE e,
                                   calls \o <<"GetOFPortVlanState">>, FALSE)
    /\ UNCHANGED <<envVars, ghostVars, fvars>>

CmdCheck ==
    \/ CheckStart
    \/ CheckLoad
    \/ CheckBridge
    \/ CheckCache
    \/ CheckIpam
    \/ CheckPrev
    \/ CheckFind
    \/ CheckNs
    \/ CheckOvs

CmdAdd ==
    \/ AddStart
    \/ AddLoad
    \/ AddVlan
    \/ AddBridge
    \/ AddUserspace
    \/ AddClean
    \/ AddGetNS
    \/ AddVFName
    \/ AddSaveCache
    \/ AddSetup
    \/ AddAttach
    \/ AddIpam
    \/ AddConvert
    \/ AddIPs
    \/ AddWaitLinkUp
    \/ AddConfigure
    \/ AddResult
    \/ AddDeferIpam
    \/ AddDeferPort
    \/ AddKilled

Next == CmdAdd \/ CmdDel \/ CmdCheck \/ Finish \/ Env

Spec == Init /\ [][Next]_vars

(***************************************************************************)
(* Harness of the trunk resolver: any trunk list, then one call.           *)
(***************************************************************************)
InitTrunk ==
    /\ InitEnv /\ netConf = NoConf /\ IdleProc /\ InitGhost
    /\ fpc = "in"
    /\ fin \in TrunkLists
    /\ fout = [err |-> "", ids |-> <<>>]

TrunkResolve ==
    /\ fpc = "in"
    /\ fpc' = "out"
    /\ fout' = splitVlanIds(fin)
    /\ UNCHANGED <<fin, envVars, procVars, ghostVars, nFaults>>

NextTrunk == TrunkResolve

SpecTrunk == InitTrunk /\ [][NextTrunk]_vars

(***************************************************************************)
(* One attach and one detach of the own pair, with the steps of another    *)
(* container's attach (its cache record, then its port) and the loss of    *)
(* that container's interface falling anywhere between the own steps.      *)
(***************************************************************************)
MaxOtherSteps == 3

OtherStep ==
    /\ nEnv < MaxOtherSteps
    /\ nEnv' = nEnv + 1
    /\ UNCHANGED <<procVars, prev, lastAdd, nInv, nFaults, netConf, fvars>>

OtherSaveCache ==
    /\ OtherStep
    /\ otherCache = <<>>
    /\ otherCache' = <<[brName |-> "br0", ifName |-> OtherIfName]>>
    /\ UNCHANGED <<cache, ports, hostLinks, contLink, nsExists, ubr>>

OtherCreatePort ==
    /\ OtherStep
    /\ otherCache # <<>>
    /\ ~HasPort(OtherPort)
    /\ ports' = [ports EXCEPT ![OtherPort] =
                    <<[cif |-> "other", mode |-> "access", tag |-> SomeU(7),
                       trunks |-> <<>>, err |-> FALSE]>>]
    /\ UNCHANGED <<cache, otherCache, hostLinks, contLink, nsExists, ubr>>

OtherIfaceError ==
    /\ OtherStep
    /\ HasPort(OtherPort)
    /\ ~Port(OtherPort).err
    /\ ports' = [ports EXCEPT ![OtherPort] = <<[Port(OtherPort) EXCEPT !.err = TRUE]>>]
    /\ UNCHANGED <<cache, otherCache, hostLinks, contLink, nsExists, ubr>>

OtherPair == OtherSaveCache \/ OtherCreatePort \/ OtherIfaceError

InitPairs ==
    /\ InitEnv
    /\ netConf \in NetConfs
    /\ IdleProc
    /\ prev = <<>>
    /\ lastAdd = <<>>
    /\ nInv = [add |-> 0, del |-> MaxDels - 1, chk |-> MaxChecks]
    /\ nEnv = 0
    /\ nFaults = 0
    /\ FIdle

NextPairs == CmdAdd \/ CmdDel \/ Finish \/ OtherPair

SpecPairs == InitPairs /\ [][NextPairs]_vars

(***************************************************************************)
(* validateInterface on its own: a reported interface, the side it is      *)
(* validated as, the offload flag and the link LinkByName finds (<<>> when *)
(* it finds none).                                                         *)
(***************************************************************************)
IfaceInputs ==
    [ intf : [name : {"", "vethA"}, mac : {"", "m1", "m2"}, sandbox : {"", NetnsPath}],
      isHost : BOOLEAN,
      hwOffload : BOOLEAN,
      link : {<<>>} \cup {<<[kind |-> k, mac |-> m]>> : k \in {"veth", "vf"}, m \in {"m1", "m2"}} ]

InitIface ==
    /\ InitEnv
    /\ netConf = NoConf
    /\ IdleProc
    /\ InitGhost
    /\ fpc = "in"
    /\ fin \in IfaceInputs
    /\ fout = ""

IfaceValidate ==
    /\ fpc = "in"
    /\ fpc' = "out"
    /\ fout' = validateInterface(fin.intf, fin.isHost, fin.hwOffload, fin.link)
    /\ UNCHANGED <<fin, envVars, procVars, ghostVars, nFaults>>

NextIface == IfaceValidate

SpecIface == InitIface /\ [][NextIface]_vars

(***************************************************************************)
(* getBridgeName on its own: the arguments, the candidate uplinks in every *)
(* order (or a failed discovery) and every answer of                       *)
(* FindBridgeByInterface; the function is called twice on the same state.  *)
(***************************************************************************)
BridgeInputs ==
    [ bridgeName : {"", "br0"}, ovnPort : {"", "ovn"}, deviceID : {"", "vf0"},
      upl : { [names |-> n, err |-> ""] :
                n \in {<<>>, <<"up0">>, <<"up0", "up1">>, <<"up1", "up0">>} }
            \cup {[names |-> <<>>, err |-> "no uplink"]},
      find : [UplinkNames -> {"", "br0", "br1"}] ]

InitBridge ==
    /\ InitEnv
    /\ netConf = NoConf
    /\ IdleProc
    /\ InitGhost
    /\ fpc = "in"
    /\ fin \in BridgeInputs
    /\ fout = [name |-> "", err |-> ""]

BridgeResolve ==
    /\ fpc = "in"
    /\ fpc' = "out"
    /\ fout' = getBridgeName(fin.bridgeName, fin.ovnPort, fin.deviceID, fin.upl, fin.find)
    /\ UNCHANGED <<fin, envVars, procVars, ghostVars, nFaults>>

BridgeResolveAgain ==
    /\ fpc = "out"
    /\ fpc' = "again"
    /\ fout' = getBridgeName(fin.bridgeName, fin.ovnPort, fin.deviceID, fin.upl, fin.find)
    /\ UNCHANGED <<fin, envVars, procVars, ghostVars, nFaults>>

NextBridge == BridgeResolve \/ BridgeResolveAgain

SpecBridge == InitBridge /\ [][NextBridge]_vars

(***************************************************************************)
(* IPAddrToHWAddr (91-105) on its own.  A net.IP is its sequence of bytes, *)
(* 4 of them or 16.                                                        *)
(***************************************************************************)
ByteVals == {0, 5, 10, 255}

Zeros(n) == [k \in 1..n |-> 0]

\* The twelve leading bytes of the 16-byte addresses tried: the
\* IPv4-mapped prefix and three that are not.
V4InV6Prefix == Zeros(10) \o <<255, 255>>

Prefixes16 ==
    { V4InV6Prefix, Zeros(12), Zeros(10) \o <<255, 0>>, <<32, 1>> \o Zeros(8) \o <<255, 255>> }

IPs4 == [1..4 -> ByteVals]

IPInputs == IPs4 \cup {p \o t : p \in Prefixes16, t \in IPs4}

\* net.IP.To4: the 4-byte form of an IPv4 address, <<>> (nil) for any other.
To4(ip) ==
    IF Len(ip) = 4 THEN ip
    ELSE IF Len(ip) = 16 /\ (\A k \in 1..10 : ip[k] = 0) /\ ip[11] = 255 /\ ip[12] = 255
      THEN SubSeq(ip, 13, 16)
    ELSE <<>>

\* The first four bytes of sha256.Sum256 of ip.String(), by a stand-in that
\* like it depends on the address alone.
RECURSIVE WeightedSum(_, _)
WeightedSum(ip, k) == IF k > Len(ip) THEN 0 ELSE k * ip[k] + WeightedSum(ip, k + 1)

HashPrefix(ip) ==
    LET w == WeightedSum(ip, 1)
    IN  <<w % 256, (w \div 256) % 256, (7 * w + 1) % 256, (13 * w + 5) % 256>>

\* IPAddrToHWAddr that takes only a 4-byte address for an IPv4 one.
IPAddrToHWAddr_NoTo4(ip) ==
    IF Len(ip) = 4 THEN <<10, 88>> \o ip
    ELSE <<10, 88>> \o HashPrefix(ip)

IPAddrToHWAddr(ip) ==
    LET ip4 == To4(ip)
    IN  IF ip4 # <<>> THEN <<10, 88, ip4[1], ip4[2], ip4[3], ip4[4]>>
        ELSE <<10, 88>> \o HashPrefix(ip)

InitMac ==
    /\ InitEnv
    /\ netConf = NoConf
    /\ IdleProc
    /\ InitGhost
    /\ fpc = "in"
    /\ fin \in IPInputs
    /\ fout = <<>>

MacDerive ==
    /\ fpc = "in"
    /\ fpc' = "out"
    /\ fout' = IPAddrToHWAddr(fin)
    /\ UNCHANGED <<fin, envVars, procVars, ghostVars, nFaults>>

MacDeriveAgain ==
    /\ fpc = "out"
    /\ fpc' = "again"
    /\ fout' = IPAddrToHWAddr(fin)
    /\ UNCHANGED <<fin, envVars, procVars, ghostVars, nFaults>>

NextMac == MacDerive \/ MacDeriveAgain

SpecMac == InitMac /\ [][NextMac]_vars

(***************************************************************************)
(* Properties of the lifecycle.                                            *)
(***************************************************************************)
InActs(c) == \E k \in 1..Len(acts) : acts[k] = c

Ended(v) == verb = v /\ pc = "done"

\* The invocation that ended just before the running one started was a v.
After(v) == prev # <<>> /\ prev[1].verb = v

\* The failures of CmdAdd that come after the rollback is deferred.
RollbackArmedFailures ==
    { "failed to set up IPAM plugin", "could not convert IPAM result",
      "IPAM plugin returned missing IP config", "The OF port state is not up",
      "failed to configure container interface" }

\* C1 (as claimed): an attach that fails on the IPAM add, the conversion of
\* its result, an IPAM result without addresses, the link-state wait or the
\* container configuration has looked the port of the container interface
\* up and, lookup and deletion succeeding, left no such port.
C1_RollbackOnLateFailure ==
    (/\ Ended("ADD")
     /\ loc.armedPort
     /\ loc.ret \in RollbackArmedFailures
     /\ ~InActs("GetOvsPortForContIface:failed")
     /\ ~InActs("DeletePort:failed"))
    => (InActs("GetOvsPortForContIface") /\ OwnPorts = {})

\* C2 (as claimed): a detach that loaded the cache record and returns an
\* error leaves the record in place.
C2_CacheKeptOnDetachError ==
    (Ended("DEL") /\ loc.cached # <<>> /\ loc.ret # "nil") => cache # <<>>

\* C3 (as claimed): of two detaches in a row with the same arguments and no
\* failing collaborator, both return success and the second makes no
\* external call.
C3_DetachIdempotent ==
    (/\ Ended("DEL")
     /\ After("DEL")
     /\ prev[1].netns = cfg.netns
     /\ ~prev[1].faults
     /\ ~faults)
    => (prev[1].ok /\ loc.ret = "nil" /\ acts = <<>>)

\* C4: a detach that finds no cache record returns success, has made no
\* external call and has deferred no cleanup.
C4_NoRecordNoAction ==
    (Ended("DEL") /\ loc.cached = <<>> /\ cache = <<>>)
    => (loc.ret = "nil" /\ acts = <<>> /\ ~loc.deferClean)

\* C4 witness: a detach without record ended while a port of the container
\* interface is still on the bridge.
C4_Witness ==
    /\ Ended("DEL")
    /\ loc.cached = <<>>
    /\ cache = <<>>
    /\ loc.ret = "nil"
    /\ OwnPorts # {}

\* C5, the state part: while the port an attach created exists, during the
\* attach and after it ended or was killed, the cache record exists; a
\* fault-free detach that follows with the same namespace path has found the
\* record and left no such port.
C5_PortImpliesCache ==
    /\ (verb = "ADD" /\ loc.created /\ HasPort(loc.hostIf)) => cache # <<>>
    /\ (pc = "idle" /\ After("ADD") /\ prev[1].made # "" /\ HasPort(prev[1].made))
          => cache # <<>>
    /\ (Ended("DEL") /\ After("ADD") /\ prev[1].made # "" /\ cfg.netns = prev[1].netns
          /\ ~faults)
          => (loc.cached # <<>> /\ ~HasPort(prev[1].made))

\* C5, the step part: no step of an attach removes a cache record.
C5_AttachKeepsCache == (verb = "ADD" /\ cache # <<>>) => cache' # <<>>

\* C5: a cache record exists whenever the port created by an attach exists,
\* attach never deletes a cache record, and the detach that follows a failed
\* or killed attach finds the record and removes the port.
C5_CacheCoversPort == []C5_PortImpliesCache /\ [][C5_AttachKeepsCache]_vars

\* C5 witness: the detach after a killed or failed attach removed the port
\* that attach had created.
C5_Witness ==
    /\ Ended("DEL")
    /\ After("ADD")
    /\ ~prev[1].ok
    /\ prev[1].made # ""
    /\ cfg.netns = prev[1].netns
    /\ loc.portFound
    /\ ~HasPort(prev[1].made)

\* C6: a fault-free detach right after a fault-free successful attach, with
\* the same namespace path, returns success and leaves neither a port of
\* the container interface nor the cache record.
C6_AttachDetachLeavesNothing ==
    (/\ Ended("DEL")
     /\ After("ADD")
     /\ prev[1].ok
     /\ ~prev[1].faults
     /\ cfg.netns = prev[1].netns
     /\ ~faults)
    => (OwnPorts = {} /\ cache = <<>> /\ loc.ret = "nil")

\* C6 witness: such a detach found the port, deleted it and cleaned the cache.
C6_Witness ==
    /\ Ended("DEL")
    /\ After("ADD")
    /\ prev[1].ok
    /\ ~prev[1].faults
    /\ cfg.netns = prev[1].netns
    /\ ~faults
    /\ loc.portFound
    /\ InActs("CleanCache")
    /\ OwnPorts = {}
    /\ cache = <<>>

\* C7 (as claimed): a fault-free verify right after a fault-free successful
\* attach, given the attach's configuration and result, returns success.
C7_VerifyAfterAttach ==
    (/\ Ended("CHECK")
     /\ After("ADD")
     /\ prev[1].ok
     /\ ~prev[1].faults
     /\ cfg.variant = "none"
     /\ ~faults)
    => loc.ret = "nil"

\* The live VLAN columns a declared configuration requires.
VlanAsDeclared(netconf, row) ==
    LET t == IF Len(netconf.trunk) > 0 THEN splitVlanIds(netconf.trunk)
             ELSE [err |-> "", ids |-> <<>>]
    IN  /\ netconf.vlan # NilU =>
              (row.tag = netconf.vlan /\ row.mode = "access" /\ row.trunks = <<>>)
        /\ Len(netconf.trunk) > 0 =>
              (t.err = "" /\ row.trunks = t.ids /\ row.mode = "trunk" /\ row.tag = NilU)
        /\ netconf.vlan = NilU => row.tag = NilU

\* C8 (as claimed): a verify returns success only if the live port of the
\* host interface named by the previous result has the VLAN state the
\* declared configuration requires.
C8_VerifyFailsOnVlanMismatch ==
    (/\ Ended("CHECK")
     /\ loc.ret = "nil"
     /\ cfg.prevResult # <<>>
     /\ HasPort(cfg.prevResult[1].host.name))
    => VlanAsDeclared(cfg.conf, Port(cfg.prevResult[1].host.name))

\* The calls by which CmdCheck examines the kernel, the IPAM and the switch.
CheckCalls ==
    { "ipam.ExecCheck", "LinkByName:host", "GetNS", "LinkByName",
      "ValidateExpectedInterfaceIPs", "ValidateExpectedRoute", "IsBridgePresent",
      "FindInterfacesWithError", "GetOFPortVlanState" }

\* The cached record differs from the loaded configuration with the bridge
\* name resolved again.
CacheDrift(c, netconf, brName) ==
    \/ c.brName # brName
    \/ c.sock # netconf.sock
    \/ c.ipam # netconf.ipam
    \/ c.dev # netconf.dev

\* C9: a verify whose cache record is missing or differs from the loaded
\* configuration in the re-resolved bridge name, the socket file, the IPAM
\* type or the device id returns an error without any kernel, IPAM or
\* switch check; a bridge resolved to another name than the cached one is
\* reported as a BrName mismatch.
C9_VerifyCacheFirst ==
    (Ended("CHECK") /\ (cache = <<>> \/ CacheDrift(cache[1], cfg.conf, loc.brName)))
    => /\ loc.ret # "nil"
       /\ \A k \in 1..Len(acts) : acts[k] \notin CheckCalls
       /\ (cache # <<>> /\ loc.brName # "" /\ cache[1].brName # loc.brName /\ ~faults)
             => loc.ret = "BrName mismatch"

\* C9 witness: the unchanged configuration resolves to another bridge than
\* the one the attach cached.
C9_Witness ==
    /\ Ended("CHECK")
    /\ cfg.variant = "none"
    /\ cache # <<>>
    /\ cache[1].brName # loc.brName
    /\ loc.ret = "BrName mismatch"

(***************************************************************************)
(* C10 as claimed: for entries with every bound in [0, 4096] and           *)
(* max >= min, the resolver returns the strictly increasing enumeration of *)
(* the set holding every single id and every integer of each [min, max]    *)
(* range, ranges starting at 0 included.                                   *)
(***************************************************************************)
ItemInBounds(item) ==
    /\ IsSet(item.minID) => Val(item.minID) <= VlanMax
    /\ IsSet(item.maxID) => Val(item.maxID) <= VlanMax
    /\ IsSet(item.id) => Val(item.id) <= VlanMax
    /\ IsSet(item.maxID) =>
          Val(item.maxID) >= (IF IsSet(item.minID) THEN Val(item.minID) ELSE 0)

ItemIds(item) ==
    (IF IsSet(item.minID) /\ IsSet(item.maxID)
       THEN Val(item.minID)..Val(item.maxID) ELSE {})
    \cup (IF IsSet(item.id) THEN {Val(item.id)} ELSE {})

DeclaredIds(trunks) == UNION {ItemIds(trunks[k]) : k \in 1..Len(trunks)}

\* C10 (as claimed): in-bounds trunk lists that declare at least one id
\* resolve to the sorted enumeration of all declared ids, ranges from 0 included.
C10_ResolverExact ==
    (/\ fpc = "out"
     /\ \A k \in 1..Len(fin) : ItemInBounds(fin[k])
     /\ DeclaredIds(fin) # {})
    => (fout.err = "" /\ fout.ids = SortAsc(DeclaredIds(fin)))

\* An entry with a bound or an id above 4096, or a range whose max is
\* smaller than its min.
ItemOutOfRange(item) ==
    \/ IsSet(item.minID) /\ Val(item.minID) > VlanMax
    \/ IsSet(item.maxID) /\ Val(item.maxID) > VlanMax
    \/ IsSet(item.id) /\ Val(item.id) > VlanMax
    \/ IsSet(item.minID) /\ IsSet(item.maxID) /\ Val(item.maxID) < Val(item.minID)

\* C11 (as claimed): a trunk list with an entry whose min, max or id is
\* above 4096, or whose max is below its min, resolves to an error, never
\* to a VLAN list.
C11_OutOfRangeRejected ==
    (fpc = "out" /\ \E k \in 1..Len(fin) : ItemOutOfRange(fin[k]))
    => (fout.err # "" /\ fout.ids = <<>>)

\* C13: the resolver never returns an empty list without an error, and a
\* trunk list none of whose entries declares an id or a range resolves to
\* an error.
C13_NoIdsIsAnError ==
    fpc = "out" =>
        /\ fout.err = "" => Len(fout.ids) > 0
        /\ DeclaredIds(fin) = {} => (fout.err # "" /\ fout.ids = <<>>)

\* C13 witness: a present trunk section whose entries carry no id, min or
\* max (or a min alone) is refused as misconfigured.
C13_Witness ==
    /\ fpc = "out"
    /\ Len(fin) > 0
    /\ DeclaredIds(fin) = {}
    /\ fout.err = "trunk parameter is misconfigured"

\* C12 (as claimed): a port the attach created in trunk mode has a
\* non-empty trunk id list.
C12_TrunkPortHasIds ==
    (verb = "ADD" /\ loc.created /\ HasPort(loc.hostIf)
        /\ Port(loc.hostIf).cif = "own" /\ Port(loc.hostIf).mode = "trunk")
    => Port(loc.hostIf).trunks # <<>>

\* C14 (as claimed): no attach and no detach returns the error of the
\* sweep of error-state ports.
C14_SweepErrorNotReturned ==
    (pc = "done" /\ verb \in {"ADD", "DEL"} /\ InActs("FindInterfacesWithError"))
    => loc.ret # "clean ports: list failed"

\* The candidates of the uplink discovery whose lookup succeeds, by position.
FoundAt(i) == {k \in 1..Len(i.upl.names) : i.find[i.upl.names[k]] # ""}

C15_BridgePriority ==
    fpc \in {"out", "again"} =>
        IF fin.bridgeName # "" THEN fout = [name |-> fin.bridgeName, err |-> ""]
        ELSE IF fin.ovnPort # "" THEN fout = [name |-> "br-int", err |-> ""]
        ELSE IF fin.deviceID # "" THEN
            IF fin.upl.err # "" \/ FoundAt(fin) = {}
              THEN fout.err # "" /\ fout.name = ""
              ELSE fout = [name |-> fin.find[fin.upl.names[MinOf(FoundAt(fin))]],
                           err |-> ""]
        ELSE fout.err # "" /\ fout.name = ""

C15_BridgeRepeatable == (fpc = "out" /\ fpc' = "again") => fout' = fout

\* C15: the bridge is the explicit name; else "br-int" for an OVN port;
\* else, for a device id, the bridge of the first candidate uplink, in the
\* order returned, whose lookup succeeds, an error when the discovery fails
\* or no candidate is found; else an error.  A second call on the same
\* inputs and state returns the same.
C15_BridgeResolution == []C15_BridgePriority /\ [][C15_BridgeRepeatable]_vars

\* C15 witness: the first candidate's lookup fails and the second one's
\* bridge is returned.
C15_Witness ==
    /\ fpc = "again"
    /\ fin.bridgeName = "" /\ fin.ovnPort = "" /\ fin.deviceID # ""
    /\ Len(fin.upl.names) = 2
    /\ fin.find[fin.upl.names[1]] = ""
    /\ fout = [name |-> fin.find[fin.upl.names[2]], err |-> ""]
    /\ fout.name # ""

\* The polls of the port's state the invocation made so far.
Polls == Cardinality({k \in 1..Len(acts) : acts[k] = "GetOFPortOpState"})

\* C16 (as claimed): whatever the configured retry count, the wait polls
\* at least once and at most retry-count times, succeeds only after a poll
\* that reported "up", and fails once the retries are used up.
C16_WaitPollsWithinRetries ==
    /\ (verb = "ADD" /\ pc = "A_config") =>
            /\ 1 <= Polls /\ Polls <= loc.retries
            /\ acts[Len(acts)] = "GetOFPortOpState:up"
    /\ (verb = "ADD" /\ loc.ret = "The OF port state is not up") =>
            /\ 1 <= Polls /\ Polls = loc.retries
            /\ ~InActs("GetOFPortOpState:up")
    /\ (verb = "ADD" /\ pc = "A_wait") => (Polls = loc.i - 1 /\ Polls <= loc.retries)

\* C20 (as claimed): in an attach with IPAM, the derived MAC, the
\* addresses and routes and the gratuitous ARP come only after a poll
\* reported the port "up".
C20_ConfiguredOnlyWhenUp ==
    (verb = "ADD" /\ (InActs("LinkSetHardwareAddr") \/ InActs("ipam.ConfigureIface")
                        \/ InActs("GratuitousArp")))
    => InActs("GetOFPortOpState:up")

\* C18: a successful attach reports two interfaces, the host side then the
\* container side; without IPAM it reports no address, with IPAM every
\* address refers to index 1 of the list, the container interface.
C18_ResultShape ==
    (Ended("ADD") /\ loc.ret = "nil") =>
        /\ loc.result # <<>>
        /\ LET r == loc.result[1]
           IN  /\ Len(r.interfaces) = 2
               /\ r.interfaces[1].name = loc.hostIf /\ r.interfaces[1].sandbox = ""
               /\ r.interfaces[2].name = "own" /\ r.interfaces[2].sandbox = cfg.netns
               /\ ~InActs("ipam.ExecAdd") => (r.nIPs = 0 /\ r.ipIface = -1)
               /\ InActs("ipam.ExecAdd") =>
                     (r.nIPs > 0 /\ r.ipIface = 1
                        /\ r.interfaces[r.ipIface + 1].sandbox = cfg.netns)

\* C18 witness: an attach with IPAM succeeded and its address refers to
\* the second interface of the result.
C18_Witness ==
    /\ Ended("ADD") /\ loc.ret = "nil"
    /\ InActs("ipam.ExecAdd")
    /\ loc.result # <<>>
    /\ loc.result[1].nIPs = 1 /\ loc.result[1].ipIface = 1
    /\ loc.result[1].interfaces[2].name = "own"

\* The 16-byte IPv4-mapped form of a 4-byte address.
MappedForm(ip) == <<0, 0, 0, 0, 0, 0, 0, 0, 0, 0, 255, 255>> \o ip

C19_MacOfAddress ==
    fpc \in {"out", "again"} =>
        /\ Len(fout) = 6 /\ fout[1] = 10 /\ fout[2] = 88
        /\ Len(fin) = 4 => SubSeq(fout, 3, 6) = fin
        /\ \A ip \in IPs4 : fin = MappedForm(ip) => SubSeq(fout, 3, 6) = ip

C19_MacRepeatable == (fpc = "out" /\ fpc' = "again") => fout' = fout

\* C19: the MAC of the IPv4 address a.b.c.d is 0A:58:a:b:c:d, in the
\* 4-byte form and in the 16-byte IPv4-mapped form; the MAC of any other
\* address starts with 0A:58 and is the same on every call.
C19_DerivedMac == []C19_MacOfAddress /\ [][C19_MacRepeatable]_vars

\* C19 witness: the IPv4-mapped form of 10.0.0.5 gives 0a:58:0a:00:00:05.
C19_Witness ==
    /\ fpc = "again"
    /\ fin = MappedForm(<<10, 0, 0, 5>>)
    /\ fout = <<10, 88, 10, 0, 0, 5>>

\* A step of the own pair's invocation (the other container's steps leave
\* its position alone).
OwnStep == pc' # pc

C17_OwnLookup ==
    (verb \in {"ADD", "DEL"} /\ loc.portFound) => loc.portName # OtherPort

C17_OtherKept ==
    OwnStep =>
        /\ otherCache' = otherCache
        /\ (HasPort(OtherPort) /\ ~Port(OtherPort).err)
              => ports'[OtherPort] = ports[OtherPort]

\* C17: wherever the steps of another pair's attachment fall between the
\* steps of an attach or a detach, the rollback and the detach find only
\* the port of their own pair, and no step of theirs removes or changes the
\* other pair's port, unless its interface is in error, or its cache record.
C17_PairsDoNotCollide == []C17_OwnLookup /\ [][C17_OtherKept]_vars

\* C17 witness: a detach found and deleted its own port and cleaned its
\* own record while the other pair's port and record, made meanwhile,
\* are still there.
C17_Witness ==
    /\ Ended("DEL")
    /\ loc.portFound /\ InActs("DeletePort") /\ InActs("CleanCache")
    /\ cache = <<>> /\ OwnPorts = {}
    /\ otherCache # <<>>
    /\ HasPort(OtherPort) /\ ~Port(OtherPort).err

\* C21 (as claimed): an attach that fails after it invoked the IPAM add
\* has invoked the IPAM del, before the lookup and the removal of the
\* switch port, and returns the failure that started the rollback.
C21_IpamDelOnLateFailure ==
    (Ended("ADD") /\ InActs("ipam.ExecAdd") /\ loc.ret \in RollbackArmedFailures) =>
        /\ InActs("ipam.ExecDel")
        /\ \A j, k \in 1..Len(acts) :
              (acts[j] = "ipam.ExecDel"
                 /\ acts[k] \in {"GetOvsPortForContIface", "DeletePort"}) => j < k

\* C22 (as claimed): a detach that loaded the cache record, was given a
\* namespace path and got past the IPAM del and the removal of the port has
\* run the sweep of error-state ports when it returns.
C22_DetachEndsWithSweep ==
    (/\ Ended("DEL")
     /\ loc.cached # <<>>
     /\ cfg.netns # ""
     /\ InActs("GetOvsPortForContIface")
     /\ ~InActs("GetOvsPortForContIface:failed")
     /\ ~InActs("DeletePort:failed"))
    => InActs("FindInterfacesWithError")

\* C23: a detach that got to the port lookup and met no failing
\* collaborator returns no error, whether or not the port, the namespace
\* or the container link is still there; when the link or the namespace is
\* gone, the host link named after the port is deleted only if a port was
\* found, and the detach returns no error even if that deletion fails; any
\* other error of the link deletion is returned.
C23_GoneStateIsSuccess ==
    Ended("DEL") =>
        /\ (InActs("GetOvsPortForContIface") /\ ~faults) => loc.ret = "nil"
        /\ (InActs("DelLinkByName") /\ loc.err \in {"NSPathNotExistErr", "ErrLinkNotFound"})
              => (loc.ret = "nil" /\ (InActs("DelLinkByName:host") <=> loc.portFound))
        /\ InActs("DelLinkByName:host") => loc.ret = "nil"
        /\ InActs("DelLinkByName:failed") => loc.ret # "nil"

\* C23 witness: the container link was gone, the port was found and
\* removed, the deletion of the host link failed and the detach returned
\* no error.
C23_Witness ==
    /\ Ended("DEL")
    /\ loc.err = "ErrLinkNotFound"
    /\ loc.portFound
    /\ InActs("DelLinkByName:host:failed")
    /\ loc.ret = "nil"

\* C24 (as claimed): validateInterface fails on a container-side record
\* with an empty sandbox, on a host-side record with a sandbox, on an
\* empty name, on a link that does not exist, on a link that is not a veth
\* while hardware offload is off, and on a recorded MAC that differs from
\* the link's.
C24_InterfaceRejected ==
    (/\ fpc = "out"
     /\ \/ ~fin.isHost /\ fin.intf.sandbox = ""
        \/ fin.isHost /\ fin.intf.sandbox # ""
        \/ fin.intf.name = ""
        \/ fin.link = <<>>
        \/ fin.link # <<>> /\ ~fin.hwOffload /\ fin.link[1].kind # "veth"
        \/ fin.link # <<>> /\ fin.intf.mac # "" /\ fin.intf.mac # fin.link[1].mac)
    => fout # ""

\* The MAC the claim expects for a list of address families: the one of
\* the first IPv4 address, the hash only without any IPv4 address.
ExpectedDerivedMac(ips) ==
    IF \E k \in 1..Len(ips) : ips[k] = "v4" THEN "0a:58:ipv4" ELSE "0a:58:sha256"

\* C25 (as claimed): an attach with IPAM that configured the container
\* interface set its MAC exactly when no MAC was requested and there is no
\* hardware offload, to the MAC of the first IPv4 address of the IPAM
\* result (the hash only if there is none), and reports that MAC;
\* otherwise the MAC stays the one the interface was set up with.
C25_DerivedMacFromFirstIPv4 ==
    (verb = "ADD" /\ InActs("ipam.ConfigureIface") /\ contLink # <<>>) =>
        IF loc.mac = "" /\ ~IsOvsHardwareOffloadEnabled(cfg.conf.dev)
          THEN /\ InActs("LinkSetHardwareAddr")
               /\ contLink[1].mac = ExpectedDerivedMac(loc.ips)
               /\ loc.contMac = contLink[1].mac
               /\ loc.result # <<>> => loc.result[1].cont.mac = contLink[1].mac
          ELSE /\ ~InActs("LinkSetHardwareAddr")
               /\ contLink[1].mac = (IF loc.mac # "" THEN loc.mac ELSE "rand")
               /\ loc.contMac = contLink[1].mac

\* The calls that change the switch, the cache or a link.
MutatingCalls ==
    { "CreatePort", "DeletePort", "SweepDeletePort", "SaveCache", "CleanCache",
      "SetupIface", "LinkSetHardwareAddr", "ipam.ConfigureIface", "DelLinkByName",
      "DelLinkByName:host", "ReleaseVF", "ResetVF", "ipam.ExecAdd", "ipam.ExecDel" }

C26_NoMutatingCall ==
    verb = "CHECK" => \A k \in 1..Len(acts) : acts[k] \notin MutatingCalls

C26_Frame ==
    (verb = "CHECK" \/ verb' = "CHECK")
    => UNCHANGED <<cache, otherCache, ports, hostLinks, contLink, nsExists>>

\* C26: no step of a verify, passing or failing, changes the ports of the
\* switch (none created, none deleted, none swept), the cache records or
\* the links, and a verify makes none of the calls that would.
C26_VerifyReadOnly == []C26_NoMutatingCall /\ [][C26_Frame]_vars

\* C26 witness: a verify that found interfaces in error ended with that
\* failure and their ports are still on the bridge.
C26_Witness ==
    /\ Ended("CHECK")
    /\ loc.ret = "There are some interfaces in error state"
    /\ InActs("FindInterfacesWithError")
    /\ ErrorIfaces # {}
    /\ cache # <<>>

\* The calls of the teardown that follow the IPAM del.
TeardownCalls ==
    { "GetOvsPortForContIface", "GetNetRepresentor", "DeletePort", "DelLinkByName",
      "DelLinkByName:host", "ReleaseVF", "ResetVF", "FindInterfacesWithError",
      "SweepDeletePort", "CleanCache" }

====
